---------------------------- MODULE Spec2Model ----------------------------
(***************************************************************************)
(* Model of the STL analyzer (src/unnamed/part_000): the geometric         *)
(* feature extraction analyzeSTLGeometry, the rule engine validateModel    *)
(* and the upload handler processFile that chains them.                    *)
(*                                                                         *)
(* Numbers.  JavaScript numbers are modelled in fixed point:               *)
(*   - a vertex coordinate is an integer count of 0.1 mm (UnitsPerMm);     *)
(*   - every length stored in ModelData (dimensions, thicknesses, depths,  *)
(*     diameters, radii) is an integer count of micrometres (UmPerMm);     *)
(*   - a unit-vector component is an integer count of 1/10000 (NormScale), *)
(*     a dot product of two unit vectors a count of 1/10^8 (DotScale),     *)
(*     an angle a count of millidegrees;                                   *)
(*   - a quotient that can be Infinity or NaN is kept as the pair          *)
(*     [num, den] and compared by cross-multiplication (see Quot).         *)
(* The text of message/details is not modelled, only which of the          *)
(* alternative messages a check selects.                                   *)
(***************************************************************************)
EXTENDS Integers, Sequences, FiniteSets, TLC

UnitsPerMm == 10
UmPerMm    == 1000
NormScale  == 10000
UmPerUnit  == UmPerMm \div UnitsPerMm

Min2(a, b) == IF a <= b THEN a ELSE b
Max2(a, b) == IF a >= b THEN a ELSE b
Abs(a)     == IF a < 0 THEN -a ELSE a

(* Math.min / Math.max over three numbers *)
Min3(a, b, c) == Min2(a, Min2(b, c))
Max3(a, b, c) == Max2(a, Max2(b, c))

(* a / b of two non-negative numbers as JavaScript evaluates it:           *)
(* den = 0 and num > 0 is Infinity, den = 0 and num = 0 is NaN.            *)
Quot(a, b)   == [num |-> a, den |-> b]
IsNaN(q)     == q.den = 0 /\ q.num = 0
IsInf(q)     == q.den = 0 /\ q.num > 0
IsFinite(q)  == q.den > 0
(* q <= k and q > k for an integer k; both are false for NaN *)
QuotLeq(q, k) == q.den > 0 /\ q.num <= k * q.den
QuotGt(q, k)  == IsInf(q) \/ (q.den > 0 /\ q.num > k * q.den)

(* floor of the square root, by bisection *)
RECURSIVE ISqrtBetween(_, _, _)
ISqrtBetween(n, lo, hi) ==
  IF lo >= hi THEN lo
  ELSE LET mid == (lo + hi + 1) \div 2
       IN  IF mid * mid <= n THEN ISqrtBetween(n, mid, hi)
                             ELSE ISqrtBetween(n, lo, mid - 1)

ISqrt(n) == ISqrtBetween(n, 0, Min2(n, 46340))

(* division of a possibly negative numerator, truncated / to the nearest *)
TruncDiv(a, b) == IF a < 0 THEN -((-a) \div b) ELSE a \div b
RoundDiv(a, b) == IF a < 0 THEN -((2 * (-a) + b) \div (2 * b))
                           ELSE (2 * a + b) \div (2 * b)

(* seq[lo] + ... + seq[hi], and seqs[lo] \o ... \o seqs[hi]; both split the  *)
(* range in halves so that the evaluation stays shallow                    *)
RECURSIVE SumRange(_, _, _)
SumRange(seq, lo, hi) ==
  IF lo > hi THEN 0
  ELSE IF lo = hi THEN seq[lo]
  ELSE SumRange(seq, lo, (lo + hi) \div 2) + SumRange(seq, (lo + hi) \div 2 + 1, hi)

SumSeq(seq) == SumRange(seq, 1, Len(seq))

RECURSIVE FlattenRange(_, _, _)
FlattenRange(seqs, lo, hi) ==
  IF lo > hi THEN << >>
  ELSE IF lo = hi THEN seqs[lo]
  ELSE FlattenRange(seqs, lo, (lo + hi) \div 2)
         \o FlattenRange(seqs, (lo + hi) \div 2 + 1, hi)

Flatten(seqs) == FlattenRange(seqs, 1, Len(seqs))

(***************************************************************************)
(* THREE.Vector3 over integer components                                   *)
(***************************************************************************)
Vec(x, y, z)  == <<x, y, z>>
ZeroVec       == <<0, 0, 0>>
AddV(a, b)    == <<a[1] + b[1], a[2] + b[2], a[3] + b[3]>>
SubV(a, b)    == <<a[1] - b[1], a[2] - b[2], a[3] - b[3]>>
ScaleV(a, k)  == <<a[1] * k, a[2] * k, a[3] * k>>
DotV(a, b)    == a[1] * b[1] + a[2] * b[2] + a[3] * b[3]
CrossV(a, b)  == <<a[2] * b[3] - a[3] * b[2],
                   a[3] * b[1] - a[1] * b[3],
                   a[1] * b[2] - a[2] * b[1]>>
LengthSq(a)   == DotV(a, a)

(* the digits kept below one when a length is taken, chosen so that the    *)
(* products stay inside 32 bits                                            *)
Guard(cc) ==
  IF cc < 2000 THEN 1000
  ELSE IF cc < 200000 THEN 100
  ELSE IF cc < 20000000 THEN 10
  ELSE 1

(* Vector3.normalize(): divideScalar(length() || 1); the zero vector stays *)
(* the zero vector.  Components come out in 1/NormScale.                   *)
NormalizeV(a) ==
  LET cc == LengthSq(a)
      f  == Guard(cc)
      l  == ISqrt(cc * f * f)
  IN  IF cc = 0 THEN ZeroVec
      ELSE << RoundDiv(a[1] * NormScale * f, l),
              RoundDiv(a[2] * NormScale * f, l),
              RoundDiv(a[3] * NormScale * f, l) >>

(* length, in micrometres, of a vector whose components are in units *)
LengthUm(a) == ISqrt(LengthSq(a) * UmPerUnit * UmPerUnit)

(***************************************************************************)
(* Math.acos and Math.sin, in degrees: cos of the whole degrees 0..90 in   *)
(* 1/10^8 (CosTable[a + 1] is cos(a deg)), linear in between.              *)
(***************************************************************************)
DotScale == NormScale * NormScale

CosTable ==
  <<
     100000000, 99984770, 99939083, 99862953, 99756405, 99619470, 99452190,
     99254615, 99026807, 98768834, 98480775, 98162718, 97814760, 97437006,
     97029573, 96592583, 96126170, 95630476, 95105652, 94551858, 93969262,
     93358043, 92718385, 92050485, 91354546, 90630779, 89879405, 89100652,
     88294759, 87461971, 86602540, 85716730, 84804810, 83867057, 82903757,
     81915204, 80901699, 79863551, 78801075, 77714596, 76604444, 75470958,
     74314483, 73135370, 71933980, 70710678, 69465837, 68199836, 66913061,
     65605903, 64278761, 62932039, 61566148, 60181502, 58778525, 57357644,
     55919290, 54463904, 52991926, 51503807, 50000000, 48480962, 46947156,
     45399050, 43837115, 42261826, 40673664, 39073113, 37460659, 35836795,
     34202014, 32556815, 30901699, 29237170, 27563736, 25881905, 24192190,
     22495105, 20791169, 19080900, 17364818, 15643447, 13917310, 12186934,
     10452846, 8715574, 6975647, 5233596, 3489950, 1745241, 0
  >>

CosDeg(a) == CosTable[a + 1]

(* cos of m millidegrees, 0 <= m <= 90000 *)
CosMdeg(m) ==
  LET a == m \div 1000
      f == m % 1000
  IN  IF a >= 90 THEN 0
      ELSE CosDeg(a) - ((CosDeg(a) - CosDeg(a + 1)) * f) \div 1000

(* sin of m millidegrees, 0 <= m <= 90000 *)
SinMdeg(m) == CosMdeg(90000 - m)

(* acos, in millidegrees, of d / DotScale for 0 <= d <= DotScale *)
AcosPos(d) ==
  LET a == CHOOSE k \in 0..90 : CosDeg(k) >= d /\ (k = 90 \/ CosDeg(k + 1) < d)
  IN  IF a = 90 THEN 90000
      ELSE a * 1000 + ((CosDeg(a) - d) * 1000) \div (CosDeg(a) - CosDeg(a + 1))

(* Math.acos(Math.min(1, Math.max(-1, dotProduct))) * (180 / Math.PI) *)
AcosMdeg(dotProduct) ==
  LET d == Min2(DotScale, Max2(-DotScale, dotProduct))
  IN  IF d < 0 THEN 180000 - AcosPos(-d) ELSE AcosPos(d)

(***************************************************************************)
(* The position attribute: a flat sequence of points, three per triangle.  *)
(* positions.count is Len(positions); fromBufferAttribute(positions, k) is *)
(* positions[k + 1] and is undefined (every component) for k >= count.     *)
(***************************************************************************)
Count(positions) == Len(positions)

Defined(positions, k) == k < Count(positions)

At(positions, k) == positions[k + 1]

(* the values of i a loop "for (i = 0; i < positions.count / 3; i++)" visits *)
TriangleIndices(positions) == { i \in 0..Count(positions) : 3 * i < Count(positions) }

(* positions.count / 3 when the count is a multiple of 3 *)
TriangleCount(positions) == Count(positions) \div 3

V0(positions, i) == At(positions, 3 * i)
V1(positions, i) == At(positions, 3 * i + 1)
V2(positions, i) == At(positions, 3 * i + 2)

(* crossVectors(edge1, edge2) of calculateFaceNormals *)
FaceCross(positions, i) ==
  CrossV(SubV(V1(positions, i), V0(positions, i)),
         SubV(V2(positions, i), V0(positions, i)))

(* v0 + v1 + v2: three times the centroid *)
CentroidSum(positions, i) ==
  AddV(AddV(V0(positions, i), V1(positions, i)), V2(positions, i))

(***************************************************************************)
(* Strings are sequences of UTF-16 code units; a < b on strings compares   *)
(* them code unit by code unit.                                            *)
(***************************************************************************)
Minus == <<45>>
Comma == <<44>>
Dot   == <<46>>

RECURSIVE Digits(_)
Digits(n) == IF n < 10 THEN <<48 + n>> ELSE Digits(n \div 10) \o <<48 + (n % 10)>>

RECURSIVE PadLeft(_, _)
PadLeft(s, w) == IF Len(s) >= w THEN s ELSE PadLeft(<<48>> \o s, w)

RECURSIVE StrLessFrom(_, _, _)
StrLessFrom(a, b, k) ==
  IF k > Len(a) THEN k <= Len(b)
  ELSE IF k > Len(b) THEN FALSE
  ELSE IF a[k] # b[k] THEN a[k] < b[k]
  ELSE StrLessFrom(a, b, k + 1)

StrLess(a, b) == StrLessFrom(a, b, 1)

(* Number.prototype.toFixed(4) of a coordinate x (in units): the sign is   *)
(* taken first, then the magnitude is rounded to the nearest 1/10000, the  *)
(* larger one on a tie.                                                    *)
ToFixed4(x) ==
  LET mag == Abs(x)
      n   == (mag * 10000 * 2 + UnitsPerMm) \div (2 * UnitsPerMm)
      ds  == PadLeft(Digits(n), 5)
      int == SubSeq(ds, 1, Len(ds) - 4)
      fr  == SubSeq(ds, Len(ds) - 3, Len(ds))
  IN  (IF x < 0 THEN Minus ELSE << >>) \o int \o Dot \o fr

VertexKey(v) ==
  ToFixed4(v[1]) \o Comma \o ToFixed4(v[2]) \o Comma \o ToFixed4(v[3])

(* makeEdgeKey without the comparison of the two keys: the key then depends *)
(* on the direction in which a triangle emits the edge                     *)
makeEdgeKeyDirected(v1, v2) == VertexKey(v1) \o Minus \o VertexKey(v2)

makeEdgeKey(v1, v2) ==
  LET key1 == VertexKey(v1)
      key2 == VertexKey(v2)
  IN  IF StrLess(key1, key2) THEN key1 \o Minus \o key2
                             ELSE key2 \o Minus \o key1

(***************************************************************************)
(* buildEdgeMap.  The Map is the sequence of its entries in insertion      *)
(* order (the order forEach visits them); faces holds 0-based triangle     *)
(* indices.                                                                *)
(***************************************************************************)
(* edgeMap.has(key): the position of the entry with this key, 0 if none *)
(* a lookup that only sees the entry added last *)
KeyIndexOfLast(edgeMap, key) ==
  IF Len(edgeMap) > 0 /\ edgeMap[Len(edgeMap)].key = key THEN Len(edgeMap) ELSE 0

KeyIndex(edgeMap, key) ==
  LET found == { k \in 1..Len(edgeMap) : edgeMap[k].key = key }
  IN  IF found = {} THEN 0 ELSE CHOOSE k \in found : TRUE

(* the body of "for (const [va, vb] of edges)" *)
AddEdge(edgeMap, va, vb, i) ==
  LET key == makeEdgeKey(va, vb)
      k   == KeyIndex(edgeMap, key)
  IN  IF k = 0
        THEN Append(edgeMap, [key |-> key, faces |-> <<i>>, vertices |-> <<va, vb>>])
        ELSE [edgeMap EXCEPT ![k].faces = Append(@, i)]

AddTriangle(edgeMap, positions, i) ==
  LET v0 == V0(positions, i)
      v1 == V1(positions, i)
      v2 == V2(positions, i)
  IN  AddEdge(AddEdge(AddEdge(edgeMap, v0, v1, i), v1, v2, i), v2, v0, i)

(* the loop over the triangles lo..hi, in order: the first half, then the  *)
(* second half on its result (the test on Len has the first half computed  *)
(* before the second is entered; a map with a triangle in it is not empty) *)
RECURSIVE AddTriangles(_, _, _, _)
AddTriangles(edgeMap, positions, lo, hi) ==
  IF lo > hi THEN edgeMap
  ELSE IF lo = hi THEN AddTriangle(edgeMap, positions, lo)
  ELSE LET first == AddTriangles(edgeMap, positions, lo, (lo + hi) \div 2)
       IN  IF Len(first) = 0 THEN first
           ELSE AddTriangles(first, positions, (lo + hi) \div 2 + 1, hi)

buildEdgeMap(positions) ==
  AddTriangles(<< >>, positions, 0, TriangleCount(positions) - 1)

(* makeEdgeKey reads v.x.toFixed of a vertex past the end of the buffer:   *)
(* a TypeError, raised in the first triangle that is not complete          *)
buildEdgeMapThrows(positions) ==
  \E i \in TriangleIndices(positions) :
     ~Defined(positions, 3 * i + 1) \/ ~Defined(positions, 3 * i + 2)

(* number of entries with exactly / at least n incident faces *)
EdgesWithFaces(edgeMap, n) ==
  Cardinality({k \in 1..Len(edgeMap) : Len(edgeMap[k].faces) = n})

(***************************************************************************)
(* GUIDELINES (lengths in micrometres)                                     *)
(***************************************************************************)
GUIDELINES ==
  [ maxDimensions       |-> [length |-> 50 * UmPerMm, width |-> 80 * UmPerMm,
                             height |-> 40 * UmPerMm],
    wallThickness       |-> [min |-> 1 * UmPerMm, max |-> 15 * UmPerMm],
    minGap              |-> 1 * UmPerMm,
    aspectRatioMax      |-> 10,
    aspectRatioRecommended |-> 5,
    minCurvatureRadius  |-> 500,
    minTJunctionRadius  |-> 2 * UmPerMm,
    minCavityWidth      |-> 400,
    minCharacterHeight  |-> 4 * UmPerMm,
    minLineWidth        |-> 500,
    minThreadSize       |-> 10,
    hollowWallThickness |-> 1200 ]

(***************************************************************************)
(* geometry.computeBoundingBox(), Box3.getSize, Box3.getCenter.  A box     *)
(* over no points is empty; getSize and getCenter of an empty box are the  *)
(* zero vector.  Center6 is six times (center - centroid).                 *)
(***************************************************************************)
Coords(positions, c) == { positions[k][c] : k \in 1..Len(positions) }
SetMin(S) == CHOOSE m \in S : \A x \in S : m <= x
SetMax(S) == CHOOSE m \in S : \A x \in S : m >= x

computeBoundingBox(positions) ==
  IF Len(positions) = 0
    THEN [empty |-> TRUE, min |-> ZeroVec, max |-> ZeroVec]
    ELSE [empty |-> FALSE,
          min |-> << SetMin(Coords(positions, 1)), SetMin(Coords(positions, 2)),
                     SetMin(Coords(positions, 3)) >>,
          max |-> << SetMax(Coords(positions, 1)), SetMax(Coords(positions, 2)),
                     SetMax(Coords(positions, 3)) >>]

(* in units *)
getSize(boundingBox) ==
  IF boundingBox.empty THEN ZeroVec ELSE SubV(boundingBox.max, boundingBox.min)

(* twice the center, in units *)
getCenter2(boundingBox) ==
  IF boundingBox.empty THEN ZeroVec ELSE AddV(boundingBox.min, boundingBox.max)

MinSize(boundingBox) ==
  LET size == getSize(boundingBox) IN Min3(size[1], size[2], size[3])

(***************************************************************************)
(* calculateFaceNormals: faceNormals[i] of the code is Normal(faceNormals, *)
(* i), i from 0.  The array is filled once, by the loop: the concatenation *)
(* with << >> turns the function into the tuple of its values.             *)
(***************************************************************************)
calculateFaceNormals(positions) ==
  [ k \in 1..TriangleCount(positions) |-> NormalizeV(FaceCross(positions, k - 1)) ]
    \o << >>

Normal(faceNormals, i) == faceNormals[i + 1]

(***************************************************************************)
(* analyzeEdges                                                            *)
(***************************************************************************)
(* n1.dot(n2), in 1/DotScale *)
EdgeDot(edge, faceNormals) ==
  DotV(Normal(faceNormals, edge.faces[1]), Normal(faceNormals, edge.faces[2]))

(* dihedralAngle = 180 - angle, in millidegrees *)
DihedralAngle(edge, faceNormals) == 180000 - AcosMdeg(EdgeDot(edge, faceNormals))

(* the sharpness test with the right angle counted as sharp *)
IsSharpOrRight(edge, faceNormals) ==
  Len(edge.faces) = 2 /\ DihedralAngle(edge, faceNormals) <= 90000

IsSharp(edge, faceNormals) ==
  Len(edge.faces) = 2 /\ DihedralAngle(edge, faceNormals) < 90000

(* edgeLength / (2 * Math.sin((90 - dihedralAngle) * Math.PI / 360)), in   *)
(* micrometres                                                             *)
EstimatedRadius(edge, faceNormals) ==
  LET edgeLength == LengthUm(SubV(edge.vertices[1], edge.vertices[2]))
      half       == (90000 - DihedralAngle(edge, faceNormals)) \div 2
      sin2       == Max2(1, (2 * SinMdeg(half)) \div NormScale)
  IN  (edgeLength * NormScale) \div sin2

SharpIndices(edgeMap, faceNormals) ==
  { k \in 1..Len(edgeMap) : IsSharp(edgeMap[k], faceNormals) }

(* the dihedral angles of the sharp entries, in forEach order *)
SharpEdgeAngles(edgeMap, faceNormals) ==
  Flatten([ k \in 1..Len(edgeMap) |->
              IF IsSharp(edgeMap[k], faceNormals)
                THEN << DihedralAngle(edgeMap[k], faceNormals) >> ELSE << >> ])

(* minCurvatureRadius === Infinity ? 0 : minCurvatureRadius *)
MinCurvatureRadius(edgeMap, faceNormals) ==
  LET sharp == SharpIndices(edgeMap, faceNormals)
  IN  IF sharp = {} THEN 0
      ELSE SetMin({ EstimatedRadius(edgeMap[k], faceNormals) : k \in sharp })

analyzeEdges(positions, faceNormals) ==
  LET edgeMap == buildEdgeMap(positions)
  IN  [ totalEdges      |-> Len(edgeMap),
        sharpEdges      |-> Cardinality(SharpIndices(edgeMap, faceNormals)),
        sharpEdgeAngles |-> SharpEdgeAngles(edgeMap, faceNormals),
        estimatedMinCurvatureRadius |-> MinCurvatureRadius(edgeMap, faceNormals),
        tJunctionCount  |->
          Cardinality({ k \in 1..Len(edgeMap) : Len(edgeMap[k].faces) >= 3 }) ]

(***************************************************************************)
(* analyzeCavities                                                         *)
(***************************************************************************)
(* every entry that is not shared by exactly two faces *)
OpenEdges(positions) ==
  Len(buildEdgeMap(positions)) - EdgesWithFaces(buildEdgeMap(positions), 2)

BoundaryEdges(positions) == EdgesWithFaces(buildEdgeMap(positions), 1)

(* normalize(boxCenter - centroid): six times the difference is            *)
(* 3 * (min + max) - 2 * (v0 + v1 + v2)                                    *)
ToCenter(positions, boundingBox, i) ==
  NormalizeV(SubV(ScaleV(getCenter2(boundingBox), 3),
                  ScaleV(CentroidSum(positions, i), 2)))

(* faceNormals[i].dot(toCenter) > 0.7 *)
IsConcave(positions, faceNormals, boundingBox, i) ==
  10 * DotV(Normal(faceNormals, i), ToCenter(positions, boundingBox, i)) > 7 * DotScale

ConcaveRegions(positions, faceNormals, boundingBox) ==
  Cardinality({ i \in 0..(TriangleCount(positions) - 1) :
                  IsConcave(positions, faceNormals, boundingBox, i) })

(* Math.min(size.x, size.y, size.z) * 0.3, in micrometres *)
HoleDepth(boundingBox) == (MinSize(boundingBox) * UmPerUnit * 3) \div 10

analyzeCavities(positions, faceNormals, boundingBox) ==
  LET boundaryEdges  == BoundaryEdges(positions)
      concaveRegions == ConcaveRegions(positions, faceNormals, boundingBox)
  IN  [ potentialCavities   |-> concaveRegions \div 10,
        boundaryLoops       |-> boundaryEdges \div 3,
        estimatedHoleDepths |-> IF concaveRegions > 0
                                  THEN << HoleDepth(boundingBox) >> ELSE << >>,
        blindHoleCount      |-> boundaryEdges \div 6,
        throughHoleCount    |-> boundaryEdges \div 12 ]

(***************************************************************************)
(* analyzeChannels                                                         *)
(***************************************************************************)
(* the values of i a loop "for (i = 0; i < n; i += step)" visits *)
(* the same stride, starting at the second triangle *)
StridedFromOne(n, step) == { i \in 0..(n - 1) : i % step = 1 }

Strided(n, step) == { i \in 0..(n - 1) : i % step = 0 }

(* horizontalComponent > 0.8 && Math.abs(normal.z) < 0.3 *)
IsTubular(normal) ==
  /\ 10 * ISqrt(normal[1] * normal[1] + normal[2] * normal[2]) > 8 * NormScale
  /\ 10 * Abs(normal[3]) < 3 * NormScale

TubularRegions(positions, faceNormals) ==
  Cardinality({ i \in Strided(TriangleCount(positions), 10) :
                  IsTubular(Normal(faceNormals, i)) })

analyzeChannels(positions, faceNormals, boundingBox) ==
  LET size           == getSize(boundingBox)
      tubularRegions == TubularRegions(positions, faceNormals)
      normalVariance == << >>
  IN  [ potentialChannels  |-> tubularRegions \div 20,
        estimatedDiameters |-> IF tubularRegions > 5
                                 THEN << (size[1] * UmPerUnit) \div 10,
                                         (size[2] * UmPerUnit) \div 10 >>
                                 ELSE << >>,
        estimatedDepths    |-> IF tubularRegions > 5
                                 THEN << (size[3] * UmPerUnit) \div 2 >> ELSE << >>,
        straightChannels   |-> IF tubularRegions > 10 /\ Len(normalVariance) = 0
                                 THEN 1 ELSE 0,
        curvedChannels     |-> IF tubularRegions > 10 /\ Len(normalVariance) > 0
                                 THEN 1 ELSE 0 ]

(***************************************************************************)
(* analyzeSurfaceFeatures.  The height loop visits i = 0, 3, 6, ... below  *)
(* min(triangleCount, 1000) and compares v0.z of triangle i with the       *)
(* previous sample (0 before the first).                                   *)
(***************************************************************************)
Height(positions, i) == V0(positions, i)[3]

PrevHeight(positions, i) == IF i = 0 THEN 0 ELSE Height(positions, i - 3)

(* Math.abs(height - prevHeight), in units *)
Variation(positions, i) == Abs(Height(positions, i) - PrevHeight(positions, i))

HeightSamples(positions) == Strided(Min2(TriangleCount(positions), 1000), 3)

(* variation > 0.1 *)
IsVariation(positions, i) == Variation(positions, i) * UmPerUnit > 100

(* variation > GUIDELINES.minCharacterHeight * 0.5 *)
IsFeature(positions, i) ==
  /\ IsVariation(positions, i)
  /\ 2 * Variation(positions, i) * UmPerUnit > GUIDELINES.minCharacterHeight

(* the variations pushed, in loop order: sample k is triangle 3 * (k - 1) *)
HeightVariations(positions) ==
  Flatten([ k \in 1..Cardinality(HeightSamples(positions)) |->
              IF IsVariation(positions, 3 * (k - 1))
                THEN << Variation(positions, 3 * (k - 1)) * UmPerUnit >> ELSE << >> ])

ReliefCount(positions) ==
  Cardinality({ i \in HeightSamples(positions) :
     IsFeature(positions, i) /\ Height(positions, i) > PrevHeight(positions, i) })

EngravingCount(positions) ==
  Cardinality({ i \in HeightSamples(positions) :
     IsFeature(positions, i) /\ ~(Height(positions, i) > PrevHeight(positions, i)) })

MaxFeatureHeight(positions) ==
  LET f == { i \in HeightSamples(positions) : IsFeature(positions, i) }
  IN  IF f = {} THEN 0
      ELSE SetMax({ Variation(positions, i) * UmPerUnit : i \in f })

(* v0.distanceTo(v1), in micrometres, of the first 500 triangles *)
FirstEdgeLength(positions, i) == LengthUm(SubV(V0(positions, i), V1(positions, i)))

(* minWidth === Infinity ? 0 : minWidth, over the lengths above 0.01 *)
MinFeatureWidth(positions) ==
  LET ls == { FirstEdgeLength(positions, i) :
                i \in 0..(Min2(TriangleCount(positions), 500) - 1) }
      ok == { l \in ls : l > 10 }
  IN  IF ok = {} THEN 0 ELSE SetMin(ok)

analyzeSurfaceFeatures(positions, boundingBox) ==
  [ heightVariations    |-> HeightVariations(positions),
    potentialReliefs    |-> ReliefCount(positions) \div 5,
    potentialEngravings |-> EngravingCount(positions) \div 5,
    minFeatureWidth     |-> MinFeatureWidth(positions),
    maxFeatureHeight    |-> MaxFeatureHeight(positions) ]

(***************************************************************************)
(* analyzeWallThickness.  draws is the sequence of triangle indices        *)
(* Math.floor(Math.random() * triangleCount) yields, one per sample.       *)
(***************************************************************************)
SampleCount(positions) == Min2(100, TriangleCount(positions) \div 10)

(* centroid.distanceTo(checkCentroid), in micrometres *)
CentroidDistance(positions, i, j) ==
  ISqrt((LengthSq(SubV(CentroidSum(positions, i), CentroidSum(positions, j)))
           * UmPerUnit * UmPerUnit) \div 9)

(* the faces the inner loop does not skip: every 5th triangle, not the     *)
(* source, whose normal has dot <= -0.5 with the source's, farther than    *)
(* 0.1 from it                                                             *)
OppositeFaces(positions, faceNormals, triIndex) ==
  { i \in Strided(TriangleCount(positions), 5) :
      /\ i # triIndex
      /\ ~(2 * DotV(Normal(faceNormals, triIndex), Normal(faceNormals, i)) > -DotScale)
      /\ CentroidDistance(positions, triIndex, i) > 100 }

(* the samples one draw pushes: minDist when it is finite and positive *)
SampleOf(positions, faceNormals, triIndex) ==
  LET opp == OppositeFaces(positions, faceNormals, triIndex)
  IN  IF opp = {} THEN << >>
      ELSE << SetMin({ CentroidDistance(positions, triIndex, i) : i \in opp }) >>

(* the samples pushed by the loop over s *)
RawSamples(positions, faceNormals, draws) ==
  Flatten([ s \in 1..Len(draws) |-> SampleOf(positions, faceNormals, draws[s]) ])

(* the synthetic sample: Math.min(size.x, size.y, size.z) * 0.1 *)
FallbackSample(boundingBox) == (MinSize(boundingBox) * UmPerUnit) \div 10

(* the synthetic sample pushed whether or not the loop found a sample *)
SamplesAndFallback(positions, faceNormals, boundingBox, draws) ==
  RawSamples(positions, faceNormals, draws) \o << FallbackSample(boundingBox) >>

SamplesOrFallback(positions, faceNormals, boundingBox, draws) ==
  LET samples == RawSamples(positions, faceNormals, draws)
  IN  IF Len(samples) = 0 THEN << FallbackSample(boundingBox) >> ELSE samples

(* samples.sort((a, b) => a - b) *)
RECURSIVE Insert(_, _)
Insert(sorted, x) ==
  IF Len(sorted) = 0 THEN << x >>
  ELSE IF x < Head(sorted) THEN << x >> \o sorted
  ELSE << Head(sorted) >> \o Insert(Tail(sorted), x)

RECURSIVE SortAscending(_)
SortAscending(seq) ==
  IF Len(seq) = 0 THEN << >>
  ELSE Insert(SortAscending(SubSeq(seq, 1, Len(seq) - 1)), seq[Len(seq)])

(* the thin-area count taken against the hollow-object threshold instead *)
ThinAreasHollow(samples) ==
  Cardinality({ k \in 1..Len(samples) : samples[k] < GUIDELINES.hollowWallThickness })

(* samples.filter(s => s < GUIDELINES.wallThickness.min).length *)
ThinAreas(samples) ==
  Cardinality({ k \in 1..Len(samples) : samples[k] < GUIDELINES.wallThickness.min })

(* the summary of the samples in the order they were pushed *)
SummarizeUnsorted(samples) ==
  [ minThickness |-> samples[1],
    maxThickness |-> samples[Len(samples)],
    avgThickness |-> SumSeq(samples) \div Len(samples),
    samples      |-> samples,
    thinAreas    |-> ThinAreas(samples) ]

(* lines 395-407: sort, then min / max / mean / thin count *)
Summarize(unsorted) ==
  LET samples == SortAscending(unsorted)
  IN  [ minThickness |-> samples[1],
        maxThickness |-> samples[Len(samples)],
        avgThickness |-> SumSeq(samples) \div Len(samples),
        samples      |-> samples,
        thinAreas    |-> ThinAreas(samples) ]

analyzeWallThickness(positions, faceNormals, boundingBox, draws) ==
  Summarize(SamplesOrFallback(positions, faceNormals, boundingBox, draws))

(***************************************************************************)
(* analyzeGeometricComplexity                                              *)
(***************************************************************************)
FloorDiv(a, b) == IF a >= 0 THEN a \div b ELSE -((b - 1 - a) \div b)

(* cross.length() * 0.5 of triangle i, in 1/10000 mm^2 *)
TriArea(positions, i) ==
  LET cc == LengthSq(FaceCross(positions, i))
      f  == Guard(cc)
  IN  (ISqrt(cc * f * f) * (UmPerUnit \div 2)) \div f

(* 1 - faceNormals[i].dot(faceNormals[i - 1]), in 1/100 *)
AngleDiff(faceNormals, i) ==
  TruncDiv(DotScale - DotV(Normal(faceNormals, i), Normal(faceNormals, i - 1)),
           DotScale \div 100)

(* curvatureSqSum / n - (curvatureSum / n)^2 as one quotient, n the number *)
(* of normals; 0 / 0 with no normals                                       *)
CurvatureVariance(faceNormals) ==
  LET n     == Len(faceNormals)
      diffs == [ i \in 1..(n - 1) |-> AngleDiff(faceNormals, i) ]
      curvatureSum   == SumSeq(diffs)
      curvatureSqSum == SumSeq([ i \in 1..(n - 1) |-> diffs[i] * diffs[i] ])
  IN  Quot(curvatureSqSum * n - curvatureSum * curvatureSum, n * n)

(* Math.round(normal.c * 10) for the three components *)
BinKey(normal) ==
  << FloorDiv(10 * normal[1] + NormScale \div 2, NormScale),
     FloorDiv(10 * normal[2] + NormScale \div 2, NormScale),
     FloorDiv(10 * normal[3] + NormScale \div 2, NormScale) >>

(* normalBins, in insertion order *)
AddToBin(bins, normal, triArea) ==
  LET key == BinKey(normal)
      k   == IF \E j \in 1..Len(bins) : bins[j].key = key
               THEN CHOOSE j \in 1..Len(bins) : bins[j].key = key ELSE 0
  IN  IF k = 0
        THEN Append(bins, [key |-> key, area |-> triArea, normal |-> normal])
        ELSE [bins EXCEPT ![k].area = @ + triArea]

(* the loop over the triangles lo..hi, in order: the first half, then the  *)
(* second half on its result (as in AddTriangles)                          *)
RECURSIVE AddToBins(_, _, _, _, _)
AddToBins(bins, positions, faceNormals, lo, hi) ==
  IF lo > hi THEN bins
  ELSE IF lo = hi
    THEN AddToBin(bins, Normal(faceNormals, lo), TriArea(positions, lo))
  ELSE LET first == AddToBins(bins, positions, faceNormals, lo, (lo + hi) \div 2)
       IN  IF Len(first) = 0 THEN first
           ELSE AddToBins(first, positions, faceNormals, (lo + hi) \div 2 + 1, hi)

NormalBins(positions, faceNormals) ==
  AddToBins(<< >>, positions, faceNormals, 0, TriangleCount(positions) - 1)

(* downward along z only *)
FacesDownAlongZ(normal) == 10 * normal[3] < -9 * NormScale

(* bin.normal.y < -0.9 || bin.normal.z < -0.9 *)
FacesDown(normal) ==
  10 * normal[2] < -9 * NormScale \/ 10 * normal[3] < -9 * NormScale

Null == << >>

(* normalBins.forEach: a bin replaces the base found so far when it faces  *)
(* down and its area is strictly larger                                    *)
RECURSIVE FlatBaseFrom(_, _, _)
FlatBaseFrom(bins, k, best) ==
  IF k > Len(bins) THEN best
  ELSE IF bins[k].area > best.flatBaseArea /\ FacesDown(bins[k].normal)
         THEN FlatBaseFrom(bins, k + 1,
                [hasFlatBase |-> TRUE, flatBaseArea |-> bins[k].area,
                 flatBaseNormal |-> bins[k].normal])
         ELSE FlatBaseFrom(bins, k + 1, best)

FlatBase(bins) ==
  FlatBaseFrom(bins, 1,
    [hasFlatBase |-> FALSE, flatBaseArea |-> 0, flatBaseNormal |-> Null])

(* the number of blind holes taken as the genus *)
GenusWithoutOffset(positions) == Max2(0, BoundaryEdges(positions) \div 6)

EstimatedGenus(positions) == Max2(0, BoundaryEdges(positions) \div 6 - 1)

analyzeGeometricComplexity(positions, faceNormals, boundingBox, surfaceArea) ==
  LET base == FlatBase(NormalBins(positions, faceNormals))
  IN  [ triangleDensity |-> Quot(TriangleCount(positions) * UmPerUnit * UmPerUnit,
                                 surfaceArea),
        surfaceCurvatureVariance |-> CurvatureVariance(faceNormals),
        componentCount  |-> 1,
        genus           |-> EstimatedGenus(positions),
        hasFlatBase     |-> base.hasFlatBase,
        flatBaseArea    |-> base.flatBaseArea,
        flatBaseNormal  |-> base.flatBaseNormal ]

(***************************************************************************)
(* analyzeSTLGeometry                                                      *)
(***************************************************************************)
(* normalize(cross(pC - pB, pA - pB)) of triangle i *)
AreaNormal(positions, i) ==
  NormalizeV(CrossV(SubV(V2(positions, i), V1(positions, i)),
                    SubV(V0(positions, i), V1(positions, i))))

NormalSum(positions) ==
  LET n == [ k \in 1..TriangleCount(positions) |-> AreaNormal(positions, k - 1) ]
  IN  << SumSeq([ k \in 1..Len(n) |-> n[k][1] ]),
         SumSeq([ k \in 1..Len(n) |-> n[k][2] ]),
         SumSeq([ k \in 1..Len(n) |-> n[k][3] ]) >>

(* pA.dot(pB.cross(pC)): six times the signed volume of the tetrahedron,   *)
(* in cubic units                                                          *)
SignedVolume6(positions, i) ==
  DotV(V0(positions, i), CrossV(V1(positions, i), V2(positions, i)))

(* the signed sum, without Math.abs *)
VolumeSigned(positions) ==
  SumSeq([ k \in 1..TriangleCount(positions) |-> SignedVolume6(positions, k - 1) ])

(* Math.abs of the sum, in 1/6000 mm^3 *)
Volume(positions) ==
  Abs(SumSeq([ k \in 1..TriangleCount(positions) |-> SignedVolume6(positions, k - 1) ]))

(* in 1/10000 mm^2 *)
SurfaceArea(positions) ==
  SumSeq([ k \in 1..TriangleCount(positions) |-> TriArea(positions, k - 1) ])

NormalDistribution(positions) ==
  LET normalSum     == NormalSum(positions)
      triangleCount == TriangleCount(positions)
  IN  [ x |-> Quot(Abs(normalSum[1]), triangleCount),
        y |-> Quot(Abs(normalSum[2]), triangleCount),
        z |-> Quot(Abs(normalSum[3]), triangleCount) ]

(* the ModelData returned for a buffer on which buildEdgeMap does not throw *)
analyzeSTLGeometry(positions, draws) ==
  LET boundingBox == computeBoundingBox(positions)
      size        == getSize(boundingBox)
      surfaceArea == SurfaceArea(positions)
      faceNormals == calculateFaceNormals(positions)
  IN  [ dimensions    |-> [length |-> size[1] * UmPerUnit,
                           width  |-> size[2] * UmPerUnit,
                           height |-> size[3] * UmPerUnit],
        volume        |-> Volume(positions),
        surfaceArea   |-> surfaceArea,
        triangleCount |-> TriangleCount(positions),
        vertexCount   |-> Count(positions),
        edgeCount     |-> Len(buildEdgeMap(positions)),
        boundingBox   |-> boundingBox,
        normalDistribution |-> NormalDistribution(positions),
        edgeAnalysis   |-> analyzeEdges(positions, faceNormals),
        cavityAnalysis |-> analyzeCavities(positions, faceNormals, boundingBox),
        channelAnalysis |-> analyzeChannels(positions, faceNormals, boundingBox),
        surfaceFeatures |-> analyzeSurfaceFeatures(positions, boundingBox),
        wallThickness  |-> analyzeWallThickness(positions, faceNormals, boundingBox, draws),
        geometricComplexity |->
          analyzeGeometricComplexity(positions, faceNormals, boundingBox, surfaceArea) ]

(***************************************************************************)
(* validateModel                                                           *)
(***************************************************************************)
Result(n, p, s, m) == [name |-> n, passed |-> p, severity |-> s, message |-> m]

(* the dimension test with the height comparison left out *)
WithinDimensionsNoHeight(data) ==
  /\ data.dimensions.length <= GUIDELINES.maxDimensions.length
  /\ data.dimensions.width  <= GUIDELINES.maxDimensions.width

(* 1. Dimensioni massime *)
WithinDimensions(data) ==
  /\ data.dimensions.length <= GUIDELINES.maxDimensions.length
  /\ data.dimensions.width  <= GUIDELINES.maxDimensions.width
  /\ data.dimensions.height <= GUIDELINES.maxDimensions.height

CheckDimensions(data) ==
  LET withinDimensions == WithinDimensions(data)
  IN  Result("Dimensioni Massime", withinDimensions,
             IF withinDimensions THEN "info" ELSE "error",
             IF withinDimensions THEN "Dimensioni OK" ELSE "ERRORE: Dimensioni superano il limite")

(* a tolerance check that fails a part longer than the length limit *)
CheckTolerancesByLength(data) ==
  LET ok == data.dimensions.length <= GUIDELINES.maxDimensions.length
  IN  Result("Tolleranze Applicabili", ok, IF ok THEN "info" ELSE "warning",
             "Tolleranze calcolate in base alle dimensioni")

(* 2. Tolleranze *)
CheckTolerances(data) ==
  Result("Tolleranze Applicabili", TRUE, "info",
         "Tolleranze calcolate in base alle dimensioni")

(* the ratio taken without the sort: length / height *)
AspectRatioUnsorted(data) == Quot(data.dimensions.length, data.dimensions.height)

(* 3. Aspect Ratio: dims sorted descending, dims[0] / dims[2] *)
AspectRatio(data) ==
  LET length == data.dimensions.length
      width  == data.dimensions.width
      height == data.dimensions.height
  IN  Quot(Max3(length, width, height), Min3(length, width, height))

CheckAspectRatio(data) ==
  LET aspectRatio       == AspectRatio(data)
      aspectOk          == QuotLeq(aspectRatio, GUIDELINES.aspectRatioMax)
      aspectRecommended == QuotLeq(aspectRatio, GUIDELINES.aspectRatioRecommended)
  IN  Result("Aspect Ratio", aspectOk,
             IF aspectOk THEN (IF aspectRecommended THEN "info" ELSE "warning")
                         ELSE "error",
             IF aspectOk THEN (IF aspectRecommended THEN "Ottimo" ELSE "Accettabile")
                         ELSE "ERRORE: supera il massimo 10:1")

(* 4. Spigoli e Raccordi *)
EdgeOk(data) ==
  /\ data.edgeAnalysis.sharpEdges = 0
  /\ \/ data.edgeAnalysis.estimatedMinCurvatureRadius = 0
     \/ data.edgeAnalysis.estimatedMinCurvatureRadius >= GUIDELINES.minCurvatureRadius

(* the T-junction test with radius 0 read as "not available", as EdgeOk reads it *)
TJunctionOkOrUnknown(data) ==
  \/ data.edgeAnalysis.tJunctionCount = 0
  \/ data.edgeAnalysis.estimatedMinCurvatureRadius = 0
  \/ data.edgeAnalysis.estimatedMinCurvatureRadius >= GUIDELINES.minTJunctionRadius

TJunctionOk(data) ==
  \/ data.edgeAnalysis.tJunctionCount = 0
  \/ data.edgeAnalysis.estimatedMinCurvatureRadius >= GUIDELINES.minTJunctionRadius

CheckEdges(data) ==
  LET ok == EdgeOk(data) /\ TJunctionOk(data)
  IN  Result("Spigoli e Raccordi", ok,
             IF ok THEN "info" ELSE "warning",
             IF data.edgeAnalysis.sharpEdges > 0
               THEN "ATTENZIONE: spigoli vivi rilevati"
               ELSE "Nessuno spigolo vivo rilevato")

(* 5. Cavita e Fori Ciechi (the name is written without the accent it has *)
(* in the source, so that it stays in ASCII)                               *)
CavityOk(data) ==
  \/ data.cavityAnalysis.potentialCavities = 0
  \/ Len(data.cavityAnalysis.estimatedHoleDepths) = 0
  \/ \A i \in 1..Len(data.cavityAnalysis.estimatedHoleDepths) :
        data.cavityAnalysis.estimatedHoleDepths[i] >= GUIDELINES.minCavityWidth

CheckCavities(data) ==
  LET cavityOk == CavityOk(data)
  IN  Result("Cavita e Fori Ciechi", cavityOk,
             IF cavityOk THEN "info" ELSE "warning",
             IF data.cavityAnalysis.potentialCavities > 0
               THEN "potenziali cavita rilevate"
               ELSE "Nessuna cavita significativa rilevata")

(* 6. Canali Aperti: the forEach over estimatedDiameters, with             *)
(* depth = estimatedDepths[i] || 0                                         *)
ChannelDepth(data, i) ==
  IF i <= Len(data.channelAnalysis.estimatedDepths)
    THEN data.channelAnalysis.estimatedDepths[i] ELSE 0

ChannelViolates(d, depth) ==
  \/ (d >= 1 * UmPerMm /\ d <= 3 * UmPerMm /\ depth > 10 * UmPerMm)
  \/ (d > 3 * UmPerMm /\ d <= 5 * UmPerMm /\ depth > 30 * UmPerMm)

ChannelOk(data) ==
  ~ ( /\ data.channelAnalysis.potentialChannels > 0
      /\ \E i \in 1..Len(data.channelAnalysis.estimatedDiameters) :
            ChannelViolates(data.channelAnalysis.estimatedDiameters[i],
                            ChannelDepth(data, i)) )

CheckChannels(data) ==
  LET channelOk == ChannelOk(data)
  IN  Result("Canali Aperti", channelOk,
             IF channelOk THEN "info" ELSE "warning",
             IF data.channelAnalysis.potentialChannels > 0
               THEN "canali potenziali" ELSE "Nessun canale rilevato")

(* 7. Rilievi e Incisioni *)
FeatureOk(data) ==
  \/ data.surfaceFeatures.minFeatureWidth = 0
  \/ data.surfaceFeatures.minFeatureWidth >= GUIDELINES.minLineWidth

CheckFeatures(data) ==
  LET featureOk == FeatureOk(data)
  IN  Result("Rilievi e Incisioni", featureOk,
             IF featureOk THEN "info" ELSE "warning",
             IF data.surfaceFeatures.potentialReliefs > 0
                  \/ data.surfaceFeatures.potentialEngravings > 0
               THEN "rilievi, incisioni rilevate"
               ELSE "Nessun rilievo/incisione significativo rilevato")

(* 8. Spessore Parete *)
WallOk(data) ==
  /\ data.wallThickness.minThickness >= GUIDELINES.wallThickness.min
  /\ data.wallThickness.maxThickness <= GUIDELINES.wallThickness.max

(* the severity with every failure of the range an error *)
WallSeverityAlwaysError(data) == IF WallOk(data) THEN "info" ELSE "error"

(* the severity taken from the upper limit alone *)
WallSeverityOfMaximum(data) ==
  IF data.wallThickness.maxThickness > GUIDELINES.wallThickness.max
    THEN "warning" ELSE "info"

WallSeverity(data) ==
  IF WallOk(data) THEN "info"
  ELSE IF data.wallThickness.minThickness < GUIDELINES.wallThickness.min
         THEN "error" ELSE "warning"

CheckWallThickness(data) ==
  LET wallOk == WallOk(data)
  IN  Result("Spessore Parete", wallOk, WallSeverity(data),
             IF wallOk THEN "Spessore OK" ELSE "Spessore fuori range")

(* 9. Base di Appoggio *)
CheckFlatBase(data) ==
  Result("Base di Appoggio", data.geometricComplexity.hasFlatBase,
         IF data.geometricComplexity.hasFlatBase THEN "info" ELSE "warning",
         IF data.geometricComplexity.hasFlatBase
           THEN "Base piana rilevata"
           ELSE "ATTENZIONE: Nessuna base piana significativa rilevata")

(* 10. Filettature *)
CheckThreads(data) ==
  Result("Filettature", TRUE, "info", "Filetto abbozzato da M10")

(* 11. Oggetti Cavi *)
HollowOk(data) ==
  data.wallThickness.minThickness >= GUIDELINES.hollowWallThickness

CheckHollow(data) ==
  LET hollowOk == HollowOk(data)
  IN  Result("Oggetti Cavi", hollowOk,
             IF hollowOk THEN "info" ELSE "warning",
             IF hollowOk THEN "Spessore parete adeguato per oggetti cavi"
                         ELSE "Verifica spessore per oggetti cavi")

(* 12. Parti Concatenate *)
CheckInterlocked(data) ==
  Result("Parti Concatenate", TRUE, "info", "Distanza minima tra parti")

(* validateModel with the channel check pushed only when a channel was found *)
validateModelSkippingChannels(data) ==
  << CheckDimensions(data), CheckTolerances(data), CheckAspectRatio(data),
     CheckEdges(data), CheckCavities(data) >>
    \o (IF data.channelAnalysis.potentialChannels > 0
          THEN << CheckChannels(data) >> ELSE << >>)
    \o << CheckFeatures(data), CheckWallThickness(data), CheckFlatBase(data),
          CheckThreads(data), CheckHollow(data), CheckInterlocked(data) >>

(* results.push(...) twelve times, in this order *)
validateModel(data) ==
  << CheckDimensions(data), CheckTolerances(data), CheckAspectRatio(data),
     CheckEdges(data), CheckCavities(data), CheckChannels(data),
     CheckFeatures(data), CheckWallThickness(data), CheckFlatBase(data),
     CheckThreads(data), CheckHollow(data), CheckInterlocked(data) >>

(***************************************************************************)
(* The meshes the reader hands over.  A box with outward-wound faces in    *)
(* the order bottom, top, front, back, left, right (two triangles each), a *)
(* corner tetrahedron; the buffer may end early (Cut points missing) and   *)
(* may carry one more triangle: a fin on an edge, or a zero-area triangle. *)
(***************************************************************************)
MaxCut == 3

(* meshes of up to this many triangles are re-enumerated in every order *)
MaxPermuted == 4

Corner(o, size, i, j, k) == << o[1] + i * size[1], o[2] + j * size[2], o[3] + k * size[3] >>

Box(o, size) ==
  LET P(i, j, k) == Corner(o, size, i, j, k)
  IN  << P(0,0,0), P(0,1,0), P(1,1,0),   P(0,0,0), P(1,1,0), P(1,0,0),
         P(0,0,1), P(1,0,1), P(1,1,1),   P(0,0,1), P(1,1,1), P(0,1,1),
         P(0,0,0), P(1,0,0), P(1,0,1),   P(0,0,0), P(1,0,1), P(0,0,1),
         P(0,1,0), P(0,1,1), P(1,1,1),   P(0,1,0), P(1,1,1), P(1,1,0),
         P(0,0,0), P(0,0,1), P(0,1,1),   P(0,0,0), P(0,1,1), P(0,1,0),
         P(1,0,0), P(1,1,0), P(1,1,1),   P(1,0,0), P(1,1,1), P(1,0,1) >>

Tetra(o, size) ==
  LET P(i, j, k) == Corner(o, size, i, j, k)
  IN  << P(0,0,0), P(0,1,0), P(1,0,0),   P(0,0,0), P(1,0,0), P(0,0,1),
         P(0,0,0), P(0,0,1), P(0,1,0),   P(1,0,0), P(0,1,0), P(0,0,1) >>

BoxSizes   == { <<x, 10, z>> : x \in {10, 30}, z \in {5, 10, 30} }
TetraSizes == { <<10, 10, 10>>, <<30, 10, 5>> }
Origins    == { <<0, 0, 0>>, <<-5, -15, 95>> }

Bases ==
  { Box(o, size) : o \in Origins, size \in BoxSizes }
    \cup { Tetra(o, size) : o \in Origins, size \in TetraSizes }

(* a triangle on the edge from the first point of the mesh to its sixth / third *)
Fin(base) == << base[1], base[Len(base) \div 6], AddV(base[1], <<0, -7, -3>>) >>

Degenerate(base) == << base[1], base[1], base[2] >>

Extras(base) == { << >>, Fin(base), Degenerate(base) }

Cut(base, k) == SubSeq(base, 1, Len(base) - k)

Variants(base) == { Cut(base, k) \o extra : k \in 0..MaxCut, extra \in Extras(base) }

(* a thin plate beside a block: enough triangles for two wall samples *)
Pair == Box(<<0, 0, 0>>, <<10, 10, 5>>) \o Box(<<40, 0, 0>>, <<30, 30, 30>>)

(* the same triangles wound the other way: v1 and v2 of each exchanged *)
Reversed(base) ==
  [ k \in 1..Len(base) |->
      IF k % 3 = 2 THEN base[k + 1] ELSE IF k % 3 = 0 THEN base[k - 1] ELSE base[k] ]
    \o << >>

Inverted ==
  { Reversed(Box(o, <<10, 10, 10>>)) : o \in Origins }
    \cup { Reversed(Tetra(o, <<10, 10, 10>>)) : o \in Origins }

(* n separate triangles, 2 mm apart along x: 3 n boundary edges *)
Shards(n) ==
  Flatten([ k \in 1..n |->
    << <<20 * k, 0, 0>>, <<20 * k + 10, 0, 0>>, <<20 * k, 10, 10>> >> ])

Scattered == { Shards(2), Shards(4) }

Soups ==
  { << >>, Pair } \cup Inverted \cup Scattered
    \cup UNION { Variants(base) : base \in Bases }

(***************************************************************************)
(* State: the buffer being processed, where the processing stands, what    *)
(* the random generator returned, and what the caller holds afterwards.    *)
(***************************************************************************)
VARIABLES positions, pc, draws, modelData, results, error,
          fileName, isLoading, reads

vars == << positions, pc, draws, modelData, results, error,
           fileName, isLoading, reads >>

(* the state of Index that processFile sets besides modelData,             *)
(* validationResults and error, and the file reads that have not called    *)
(* back yet                                                                *)
upload == << fileName, isLoading, reads >>

NoData == [ none |-> TRUE ]

(* useState(""), useState(false), and no FileReader started *)
NoUpload ==
  /\ fileName = << >>
  /\ isLoading = FALSE
  /\ reads = << >>

(* the index sequences Math.random can produce for this buffer *)
RECURSIVE DrawSeqs(_, _)
DrawSeqs(n, triangleCount) ==
  IF n = 0 THEN { << >> }
  ELSE { << t >> \o d : t \in 0..(triangleCount - 1), d \in DrawSeqs(n - 1, triangleCount) }

Init ==
  /\ positions \in Soups
  /\ pc = "loaded"
  /\ draws = << >>
  /\ modelData = NoData
  /\ results = << >>
  /\ error = ""
  /\ NoUpload

(* analyzeSTLGeometry returns *)
Analyze ==
  /\ pc = "loaded"
  /\ ~buildEdgeMapThrows(positions)
  /\ \E d \in DrawSeqs(SampleCount(positions), TriangleCount(positions)) :
        /\ draws' = d
        /\ modelData' = analyzeSTLGeometry(positions, d)
  /\ pc' = "analyzed"
  /\ UNCHANGED << positions, results, error >>
  /\ UNCHANGED upload

(* analyzeSTLGeometry throws out of buildEdgeMap; processFile catches it *)
AnalyzeThrows ==
  /\ pc = "loaded"
  /\ buildEdgeMapThrows(positions)
  /\ pc' = "failed"
  /\ error' = "Errore nel parsing del file STL"
  /\ UNCHANGED << positions, draws, modelData, results >>
  /\ UNCHANGED upload

Validate ==
  /\ pc = "analyzed"
  /\ results' = validateModel(modelData)
  /\ pc' = "validated"
  /\ UNCHANGED << positions, draws, modelData, error >>
  /\ UNCHANGED upload

Next == Analyze \/ AnalyzeThrows \/ Validate

Spec == Init /\ [][Next]_vars

(***************************************************************************)
(* validateModel on its own: it takes any ModelData, so it is also run on  *)
(* metrics no mesh of Soups produces.  The values sit on and next to the   *)
(* thresholds of GUIDELINES (lengths in um); only the fields validateModel *)
(* reads are given.                                                        *)
(***************************************************************************)
Lengths == { 0, 5000, 50000, 50001, 60000 }
Widths  == { 0, 5000, 25000, 80000, 80001 }
Heights == { 0, 5000, 40000, 40001 }

DimensionsDomain ==
  { [length |-> l, width |-> w, height |-> h] : l \in Lengths, w \in Widths, h \in Heights }

EdgeDomain ==
  { [ totalEdges |-> 18, sharpEdges |-> s, sharpEdgeAngles |-> << >>,
      estimatedMinCurvatureRadius |-> r, tJunctionCount |-> t ] :
      s \in {0, 2}, r \in {0, 300, 500, 1999, 2000}, t \in {0, 1} }

WallDomain ==
  { [ samples |-> << m[1], m[2] >>, minThickness |-> m[1], maxThickness |-> m[2],
      avgThickness |-> (m[1] + m[2]) \div 2,
      thinAreas |-> (IF m[1] < 1000 THEN 1 ELSE 0) + (IF m[2] < 1000 THEN 1 ELSE 0) ] :
      m \in { <<0, 0>>, <<500, 1200>>, <<999, 15001>>, <<1000, 15000>>,
              <<1000, 15001>>, <<1199, 1199>>, <<1200, 1200>> } }

CavityDomain ==
  { [ potentialCavities |-> c[1], boundaryLoops |-> 0, estimatedHoleDepths |-> c[2],
      blindHoleCount |-> 0, throughHoleCount |-> 0 ] :
      c \in { <<0, << >> >>, <<2, << >> >>, <<2, <<300, 400>> >>, <<2, <<400, 500>> >> } }

ChannelDomain ==
  { [ potentialChannels |-> c[1], estimatedDiameters |-> c[2], estimatedDepths |-> c[3],
      straightChannels |-> 0, curvedChannels |-> 0 ] :
      c \in { <<0, << >>, << >> >>, <<1, <<2000>>, <<10000>> >>,
              <<1, <<2000>>, <<10001>> >>, <<1, <<4000>>, <<30001>> >>,
              (* as analyzeChannels emits them: two diameters, one depth *)
              <<1, <<500, 2000>>, <<15000>> >>, <<0, <<2000, 2000>>, <<15000>> >> } }

FeatureDomain ==
  { [ heightVariations |-> << >>, potentialReliefs |-> f[1], potentialEngravings |-> 0,
      minFeatureWidth |-> f[2], maxFeatureHeight |-> 0 ] :
      f \in { <<0, 0>>, <<1, 499>>, <<1, 500>> } }

(* cavities, channels, surface features and the flat base, varied together *)
RestDomain ==
  { [ cavityAnalysis |-> c, channelAnalysis |-> ch, surfaceFeatures |-> f,
      geometricComplexity |-> [ hasFlatBase |-> b ] ] :
      c \in CavityDomain, ch \in ChannelDomain, f \in FeatureDomain, b \in BOOLEAN }

RestProfiles ==
  { r \in RestDomain :
      \/ /\ r.cavityAnalysis.potentialCavities = 0
         /\ r.channelAnalysis.potentialChannels = 0
         /\ r.surfaceFeatures.minFeatureWidth = 0
      \/ /\ r.cavityAnalysis.potentialCavities > 0
         /\ Len(r.cavityAnalysis.estimatedHoleDepths) > 0
         /\ r.channelAnalysis.potentialChannels > 0
         /\ r.surfaceFeatures.minFeatureWidth > 0
         /\ r.geometricComplexity.hasFlatBase }

ModelDataDomain ==
  { [ dimensions |-> d, edgeAnalysis |-> e, wallThickness |-> w,
      cavityAnalysis |-> r.cavityAnalysis, channelAnalysis |-> r.channelAnalysis,
      surfaceFeatures |-> r.surfaceFeatures,
      geometricComplexity |-> r.geometricComplexity ] :
      d \in DimensionsDomain, e \in EdgeDomain, w \in WallDomain, r \in RestProfiles }

InitValidate ==
  /\ positions = << >>
  /\ pc = "analyzed"
  /\ draws = << >>
  /\ modelData \in ModelDataDomain
  /\ results = << >>
  /\ error = ""
  /\ NoUpload

NextValidate == Validate

SpecValidate == InitValidate /\ [][NextValidate]_vars

(***************************************************************************)
(* analyzeChannels on its own.  It samples every 10th triangle and its     *)
(* thresholds are 5, 10 and 20 samples, so it is run on meshes of up to    *)
(* 201 triangles, too many for the random draws of the wall-thickness      *)
(* analyzer to be enumerated.  A mesh is a fan of triangles in the plane   *)
(* z = 0 of which the first t sampled ones are replaced by triangles in    *)
(* the plane x = 0, whose normal is horizontal.  The fields of ModelData   *)
(* the other analyzers fill are held at the values of a closed block.      *)
(***************************************************************************)
StripedCounts == { 1, 51, 61, 101, 111, 191, 201 }
StripedSizes  == { <<200, 40, 300>>, <<40, 200, 300>> }

Striped(n, t, size) ==
  [ k \in 1..(3 * n) |->
      LET i == (k - 1) \div 3
          j == (k - 1) % 3
      IN  IF i % 10 = 0 /\ i \div 10 < t
            THEN << <<0, 0, 0>>, <<0, 10, 0>>, <<0, 0, size[3]>> >>[j + 1]
            ELSE << <<0, 0, 0>>, <<size[1], 0, 0>>, <<0, size[2], 0>> >>[j + 1] ]
    \o << >>

StripedSoups ==
  { Striped(n, t, size) :
      n \in StripedCounts, t \in { 0, 5, 6, 10, 11, 19, 20, 21 }, size \in StripedSizes }

OtherAnalyses ==
  [ edgeAnalysis |-> [ totalEdges |-> 18, sharpEdges |-> 0, sharpEdgeAngles |-> << >>,
                       estimatedMinCurvatureRadius |-> 0, tJunctionCount |-> 0 ],
    wallThickness |-> [ samples |-> <<1200>>, minThickness |-> 1200,
                        maxThickness |-> 1200, avgThickness |-> 1200, thinAreas |-> 0 ],
    cavityAnalysis |-> [ potentialCavities |-> 0, boundaryLoops |-> 0,
                         estimatedHoleDepths |-> << >>, blindHoleCount |-> 0,
                         throughHoleCount |-> 0 ],
    surfaceFeatures |-> [ heightVariations |-> << >>, potentialReliefs |-> 0,
                          potentialEngravings |-> 0, minFeatureWidth |-> 0,
                          maxFeatureHeight |-> 0 ],
    geometricComplexity |-> [ hasFlatBase |-> TRUE ] ]

InitChannels ==
  /\ positions \in StripedSoups
  /\ pc = "loaded"
  /\ draws = << >>
  /\ modelData = NoData
  /\ results = << >>
  /\ error = ""
  /\ NoUpload

(* analyzeChannels returns *)
AnalyzeChannels ==
  /\ pc = "loaded"
  /\ LET boundingBox == computeBoundingBox(positions)
         size        == getSize(boundingBox)
     IN  modelData' =
           [ dimensions      |-> [length |-> size[1] * UmPerUnit,
                                  width  |-> size[2] * UmPerUnit,
                                  height |-> size[3] * UmPerUnit],
             triangleCount   |-> TriangleCount(positions),
             channelAnalysis |->
               analyzeChannels(positions, calculateFaceNormals(positions), boundingBox),
             edgeAnalysis    |-> OtherAnalyses.edgeAnalysis,
             wallThickness   |-> OtherAnalyses.wallThickness,
             cavityAnalysis  |-> OtherAnalyses.cavityAnalysis,
             surfaceFeatures |-> OtherAnalyses.surfaceFeatures,
             geometricComplexity |-> OtherAnalyses.geometricComplexity ]
  /\ pc' = "analyzed"
  /\ UNCHANGED << positions, draws, results, error >>
  /\ UNCHANGED upload

NextChannels == AnalyzeChannels \/ Validate

SpecChannels == InitChannels /\ [][NextChannels]_vars

(***************************************************************************)
(* The upload handler of Index.  processFile may be called again before    *)
(* the FileReader of an earlier call has called back (the drop zone and    *)
(* the file input stay enabled while isLoading), and the readers call back *)
(* in any order.  A file is its name (code units), whether the read        *)
(* succeeds, whether STLLoader.parse accepts the bytes, and the triangle   *)
(* list the parse yields.  React applies the setState calls of one handler *)
(* together, so a handler is one step.                                     *)
(***************************************************************************)
MaxReads == 2

(* ".stl" *)
StlSuffix == << 46, 115, 116, 108 >>

(* String.prototype.toLowerCase on the letters A-Z *)
ToLowerCase(str) ==
  [ k \in 1..Len(str) |-> IF str[k] >= 65 /\ str[k] <= 90 THEN str[k] + 32 ELSE str[k] ]

(* String.prototype.endsWith *)
EndsWith(str, suffix) ==
  /\ Len(str) >= Len(suffix)
  /\ SubSeq(str, Len(str) - Len(suffix) + 1, Len(str)) = suffix

(* file.name.toLowerCase().endsWith(".stl") *)
IsStlName(name) == EndsWith(ToLowerCase(name), StlSuffix)

(* a.stl and b.STL hold two different meshes, c.stl bytes that do not      *)
(* parse, d.stl cannot be read, e.txt is not an STL file                   *)
UploadFiles ==
  << [ name |-> << 97, 46, 115, 116, 108 >>, readable |-> TRUE, parses |-> TRUE,
       positions |-> Tetra(<<0, 0, 0>>, <<10, 10, 10>>) ],
     [ name |-> << 98, 46, 83, 84, 76 >>, readable |-> TRUE, parses |-> TRUE,
       positions |-> Tetra(<<0, 0, 0>>, <<30, 10, 5>>) ],
     [ name |-> << 99, 46, 115, 116, 108 >>, readable |-> TRUE, parses |-> FALSE,
       positions |-> << >> ],
     [ name |-> << 100, 46, 115, 116, 108 >>, readable |-> FALSE, parses |-> FALSE,
       positions |-> << >> ],
     [ name |-> << 101, 46, 116, 120, 116 >>, readable |-> TRUE, parses |-> FALSE,
       positions |-> << >> ] >>

(* the read at place k of reads has called back *)
WithoutRead(k) == SubSeq(reads, 1, k - 1) \o SubSeq(reads, k + 1, Len(reads))

InitUpload ==
  /\ positions = << >>
  /\ pc = "idle"
  /\ draws = << >>
  /\ modelData = NoData
  /\ results = << >>
  /\ error = ""
  /\ NoUpload

(* processFile(file) with a name that does not end in .stl *)
RejectFile(f) ==
  /\ ~IsStlName(UploadFiles[f].name)
  /\ error' = "Per favore carica un file STL"
  /\ UNCHANGED << positions, pc, draws, modelData, results, upload >>

(* processFile(file) up to reader.readAsArrayBuffer(file) *)
StartRead(f) ==
  /\ IsStlName(UploadFiles[f].name)
  /\ Len(reads) < MaxReads
  /\ isLoading' = TRUE
  /\ error' = ""
  /\ fileName' = UploadFiles[f].name
  /\ reads' = Append(reads, f)
  /\ UNCHANGED << positions, pc, draws, modelData, results >>

(* reader.onload: try { parse, analyze, validate } with no exception *)
OnLoad(k) ==
  /\ k \in 1..Len(reads)
  /\ LET file == UploadFiles[reads[k]]
     IN  /\ file.readable /\ file.parses
         /\ ~buildEdgeMapThrows(file.positions)
         /\ \E d \in DrawSeqs(SampleCount(file.positions), TriangleCount(file.positions)) :
               /\ draws' = d
               /\ modelData' = analyzeSTLGeometry(file.positions, d)
               /\ results' = validateModel(modelData')
         /\ positions' = file.positions
  /\ pc' = "validated"
  /\ isLoading' = FALSE
  /\ reads' = WithoutRead(k)
  /\ UNCHANGED << error, fileName >>

(* reader.onload: the catch branch, then finally *)
OnLoadThrows(k) ==
  /\ k \in 1..Len(reads)
  /\ LET file == UploadFiles[reads[k]]
     IN  /\ file.readable
         /\ ~file.parses \/ buildEdgeMapThrows(file.positions)
  /\ error' = "Errore nel parsing del file STL"
  /\ pc' = "failed"
  /\ isLoading' = FALSE
  /\ reads' = WithoutRead(k)
  /\ UNCHANGED << positions, draws, modelData, results, fileName >>

(* reader.onerror *)
OnError(k) ==
  /\ k \in 1..Len(reads)
  /\ ~UploadFiles[reads[k]].readable
  /\ error' = "Errore nella lettura del file"
  /\ isLoading' = FALSE
  /\ reads' = WithoutRead(k)
  /\ UNCHANGED << positions, pc, draws, modelData, results, fileName >>

NextUpload ==
  \/ \E f \in 1..Len(UploadFiles) : RejectFile(f) \/ StartRead(f)
  \/ \E k \in 1..MaxReads : OnLoad(k) \/ OnLoadThrows(k) \/ OnError(k)

SpecUpload == InitUpload /\ [][NextUpload]_vars

(***************************************************************************)
(* Properties                                                              *)
(***************************************************************************)
(* the names of the twelve results.push calls of validateModel, in order *)
CheckNames ==
  << "Dimensioni Massime", "Tolleranze Applicabili", "Aspect Ratio",
     "Spigoli e Raccordi", "Cavita e Fori Ciechi", "Canali Aperti",
     "Rilievi e Incisioni", "Spessore Parete", "Base di Appoggio",
     "Filettature", "Oggetti Cavi", "Parti Concatenate" >>

Validated == pc = "validated"

(* C1: for every ModelData, degenerate metrics included, validateModel     *)
(* returns twelve results whose names are the same, in the same order: no  *)
(* check is left out or added depending on the input.                      *)
C1_FixedResultList ==
  Validated =>
    /\ Len(results) = Len(CheckNames)
    /\ \A i \in 1..Len(results) : results[i].name = CheckNames[i]

(* C1 reached on degenerate metrics: no sharp edge, no channel or cavity   *)
(* estimate, minFeatureWidth 0, no flat base                               *)
C1_Witness ==
  /\ Validated
  /\ Len(results) = 12
  /\ modelData.edgeAnalysis.sharpEdges = 0
  /\ Len(modelData.channelAnalysis.estimatedDiameters) = 0
  /\ Len(modelData.cavityAnalysis.estimatedHoleDepths) = 0
  /\ modelData.surfaceFeatures.minFeatureWidth = 0
  /\ ~modelData.geometricComplexity.hasFlatBase

(* C2: "Dimensioni Massime" passes with severity info exactly when         *)
(* length <= 50, width <= 80 and height <= 40 (mm); when a dimension       *)
(* exceeds its limit it fails with severity error.                         *)
C2_DimensionsCheck ==
  Validated =>
    LET r == results[1]
        d == modelData.dimensions
    IN  /\ r.name = "Dimensioni Massime"
        /\ IF d.length <= 50000 /\ d.width <= 80000 /\ d.height <= 40000
             THEN r.passed /\ r.severity = "info"
             ELSE ~r.passed /\ r.severity = "error"

(* C2 reached with length 60 and the other two dimensions in range *)
C2_Witness ==
  /\ Validated
  /\ modelData.dimensions.length = 60000
  /\ modelData.dimensions.width <= 80000
  /\ modelData.dimensions.height <= 40000
  /\ ~results[1].passed
  /\ results[1].severity = "error"

(* C3: "Aspect Ratio" takes largest / smallest dimension; ratio <= 5 gives *)
(* passed, info; 5 < ratio <= 10 gives passed, warning; ratio > 10 (a zero *)
(* smallest dimension under a positive largest one included: Infinity)     *)
(* gives failed, error; all dimensions 5 gives passed, info.               *)
C3_AspectRatioCheck ==
  Validated =>
    LET r == results[3]
        d == modelData.dimensions
        largest  == Max3(d.length, d.width, d.height)
        smallest == Min3(d.length, d.width, d.height)
    IN  /\ r.name = "Aspect Ratio"
        /\ (smallest > 0 /\ largest <= 5 * smallest)
              => (r.passed /\ r.severity = "info")
        /\ (smallest > 0 /\ largest > 5 * smallest /\ largest <= 10 * smallest)
              => (r.passed /\ r.severity = "warning")
        /\ ((smallest > 0 /\ largest > 10 * smallest) \/ (smallest = 0 /\ largest > 0))
              => (~r.passed /\ r.severity = "error")
        /\ (d.length = 5000 /\ d.width = 5000 /\ d.height = 5000)
              => (r.passed /\ r.severity = "info")

(* C3 reached in the band between the two thresholds, where the smallest   *)
(* dimension is not the height                                             *)
C3_Witness ==
  /\ Validated
  /\ modelData.dimensions.length = 5000
  /\ modelData.dimensions.width = 25000
  /\ modelData.dimensions.height = 40000
  /\ results[3].passed
  /\ results[3].severity = "warning"

(* C4: "Spessore Parete" passes with severity info iff minThickness >= 1   *)
(* and maxThickness <= 15; its severity is error iff minThickness < 1, and *)
(* warning iff minThickness >= 1 and maxThickness > 15.                    *)
C4_WallThicknessCheck ==
  Validated =>
    LET r == results[8]
        w == modelData.wallThickness
    IN  /\ r.name = "Spessore Parete"
        /\ r.passed <=> (w.minThickness >= 1000 /\ w.maxThickness <= 15000)
        /\ r.severity = "info" <=> (w.minThickness >= 1000 /\ w.maxThickness <= 15000)
        /\ r.severity = "error" <=> w.minThickness < 1000
        /\ r.severity = "warning" <=> (w.minThickness >= 1000 /\ w.maxThickness > 15000)

(* C4 reached where only the maximum is exceeded *)
C4_Witness ==
  /\ Validated
  /\ modelData.wallThickness.minThickness >= 1000
  /\ modelData.wallThickness.maxThickness > 15000
  /\ ~results[8].passed
  /\ results[8].severity = "warning"

(* C5: in every analysis thinAreas is the number of samples below 1 mm, so *)
(* minThickness < 1 iff thinAreas > 0; and when the analysis reports       *)
(* minThickness < 1 the "Spessore Parete" check that follows fails with    *)
(* severity error.                                                         *)
C5_ThinAreas ==
  pc \in {"analyzed", "validated"} =>
    LET w == modelData.wallThickness
    IN  /\ w.thinAreas = Cardinality({ k \in 1..Len(w.samples) : w.samples[k] < 1000 })
        /\ w.minThickness < 1000 <=> w.thinAreas > 0
        /\ (Validated /\ w.minThickness < 1000)
              => (~results[8].passed /\ results[8].severity = "error")

(* C5 reached on a mesh whose two samples come out thick first, thin second *)
C5_Witness ==
  /\ Validated
  /\ Len(draws) = 2
  /\ modelData.wallThickness.samples[1] < 1000
  /\ modelData.wallThickness.samples[2] >= 1000
  /\ modelData.wallThickness.thinAreas = 1
  /\ SampleOf(positions, calculateFaceNormals(positions), draws[1]) = << modelData.wallThickness.samples[2] >>
  /\ results[8].severity = "error"

(* C6: "Spigoli e Raccordi" never has severity error: on the ModelData of  *)
(* an analysis it fails, with severity warning, exactly when               *)
(* sharpEdges > 0 or tJunctionCount > 0 with the estimated minimum         *)
(* curvature radius below 2 mm; otherwise it passes with severity info.    *)
C6_EdgesCheck ==
  Validated =>
    LET r == results[4]
        e == modelData.edgeAnalysis
        flagged == \/ e.sharpEdges > 0
                   \/ (e.tJunctionCount > 0 /\ e.estimatedMinCurvatureRadius < 2000)
    IN  /\ r.name = "Spigoli e Raccordi"
        /\ r.severity # "error"
        /\ IF flagged THEN ~r.passed /\ r.severity = "warning"
                      ELSE r.passed /\ r.severity = "info"

(* C6 reached on a mesh with a T-junction and no sharp edge *)
C6_Witness ==
  /\ Validated
  /\ modelData.edgeAnalysis.sharpEdges = 0
  /\ modelData.edgeAnalysis.tJunctionCount > 0
  /\ ~results[4].passed
  /\ results[4].severity = "warning"

(* C7: "Tolleranze Applicabili", "Filettature" and "Parti Concatenate"     *)
(* report passed and severity info for every ModelData.                    *)
C7_AdvisoryChecks ==
  Validated =>
    \A i \in {2, 10, 12} :
      /\ results[i].name = CheckNames[i]
      /\ results[i].passed
      /\ results[i].severity = "info"

(* C7 reached on a ModelData that fails the dimension, wall and edge checks *)
C7_Witness ==
  /\ Validated
  /\ ~results[1].passed
  /\ ~results[4].passed
  /\ ~results[8].passed
  /\ results[2].passed /\ results[10].passed /\ results[12].passed

(* C8: on malformed input (an empty point list, or a point count that is   *)
(* not a multiple of 3) analyzeSTLGeometry fails before any analyzer runs: *)
(* no ModelData is returned and validateModel is not run.                  *)
C8_FailFast ==
  (Count(positions) = 0 \/ Count(positions) % 3 # 0)
     => (modelData = NoData /\ results = << >>)

(* the directed edges triangle i emits: [v0, v1], [v1, v2], [v2, v0] *)
EmittedEdges(buffer, i) ==
  { << V0(buffer, i), V1(buffer, i) >>, << V1(buffer, i), V2(buffer, i) >>,
    << V2(buffer, i), V0(buffer, i) >> }

(* how many times the triangles of the buffer emit the edge between a and  *)
(* b, in either direction                                                  *)
Emissions(buffer, a, b) ==
  Cardinality({ << i, s >> \in TriangleIndices(buffer) \X (0..2) :
                  { At(buffer, 3 * i + s), At(buffer, 3 * i + ((s + 1) % 3)) } = {a, b} })

(* C10: makeEdgeKey(A, B) = makeEdgeKey(B, A) for all endpoints, so an     *)
(* edge one triangle emits as (A, B) and another as (B, A) is one entry of *)
(* the edge map holding both faces: the map has one entry per unordered    *)
(* endpoint pair, and the entry counts every emission of the pair.         *)
C10_EdgeKeyCanonical ==
  pc = "analyzed" =>
    LET edgeMap == buildEdgeMap(positions)
        points  == { positions[k] : k \in 1..Len(positions) }
        pairs   == UNION { { {e[1], e[2]} : e \in EmittedEdges(positions, i) } :
                           i \in TriangleIndices(positions) }
    IN  /\ \A a \in points, b \in points : makeEdgeKey(a, b) = makeEdgeKey(b, a)
        /\ modelData.edgeCount = Cardinality(pairs)
        /\ Len(edgeMap) = Cardinality(pairs)
        /\ \A k \in 1..Len(edgeMap) :
              Len(edgeMap[k].faces) =
                Emissions(positions, edgeMap[k].vertices[1], edgeMap[k].vertices[2])

(* C10 reached on a closed mesh: the first triangle emits an edge (A, B),  *)
(* the second one emits it as (B, A), and the map holds it once, with the  *)
(* two faces                                                               *)
C10_Witness ==
  /\ pc = "analyzed"
  /\ TriangleCount(positions) >= 2
  /\ \E e \in EmittedEdges(positions, 0) :
        /\ e[1] # e[2]
        /\ << e[2], e[1] >> \in EmittedEdges(positions, 1)
        /\ \E k \in 1..Len(buildEdgeMap(positions)) :
              /\ buildEdgeMap(positions)[k].key = makeEdgeKey(e[1], e[2])
              /\ buildEdgeMap(positions)[k].faces = << 0, 1 >>
  /\ modelData.cavityAnalysis.boundaryLoops = 0

UnitCubes == { Box(o, <<10, 10, 10>>) : o \in Origins }

(* C11: for the unit cube of 12 consistently wound triangles the analysis  *)
(* reports volume 1, surface area 6, dimensions (1, 1, 1), no sharp edge,  *)
(* no boundary edge, 18 edges with exactly 2 incident faces each, and a    *)
(* flat base of area 1 with normal (0, -1, 0) or (0, 0, -1).               *)
C11_UnitCube ==
  (pc = "analyzed" /\ positions \in UnitCubes) =>
    /\ modelData.volume = 6000
    /\ modelData.surfaceArea = 60000
    /\ modelData.dimensions = [length |-> 1000, width |-> 1000, height |-> 1000]
    /\ modelData.edgeAnalysis.sharpEdges = 0
    /\ modelData.edgeAnalysis.sharpEdgeAngles = << >>
    /\ modelData.edgeAnalysis.totalEdges = 18
    /\ modelData.edgeCount = 18
    /\ EdgesWithFaces(buildEdgeMap(positions), 2) = 18
    /\ EdgesWithFaces(buildEdgeMap(positions), 1) = 0
    /\ modelData.cavityAnalysis.boundaryLoops = 0
    /\ modelData.geometricComplexity.hasFlatBase
    /\ modelData.geometricComplexity.flatBaseArea = 10000
    /\ modelData.geometricComplexity.flatBaseNormal \in { <<0, -10000, 0>>, <<0, 0, -10000>> }

(* C11 reached on the unit cube away from the origin *)
C11_Witness ==
  /\ pc = "analyzed"
  /\ positions = Box(<<-5, -15, 95>>, <<10, 10, 10>>)
  /\ modelData.volume = 6000

(* every edge of the mesh has exactly two incident faces, and no triangle  *)
(* has zero area                                                           *)
ClosedNonDegenerate(buffer) ==
  /\ TriangleCount(buffer) > 0
  /\ EdgesWithFaces(buildEdgeMap(buffer), 2) = Len(buildEdgeMap(buffer))
  /\ \A i \in TriangleIndices(buffer) : FaceCross(buffer, i) # ZeroVec

(* C12: the reported volume is non-negative for every triangle soup,       *)
(* whatever its winding, and for a non-degenerate closed mesh the surface  *)
(* area is strictly positive.                                              *)
C12_VolumeAndArea ==
  pc = "analyzed" =>
    /\ modelData.volume >= 0
    /\ ClosedNonDegenerate(positions) => modelData.surfaceArea > 0

(* C12 reached on a closed mesh wound inwards: the signed sum is negative *)
C12_Witness ==
  /\ pc = "analyzed"
  /\ ClosedNonDegenerate(positions)
  /\ VolumeSigned(positions) < 0
  /\ modelData.volume > 0
  /\ modelData.surfaceArea > 0

(* C13: in "Spigoli e Raccordi" the radius 0 is the "not applicable"       *)
(* sentinel, never a radius that is too small: a ModelData with            *)
(* sharpEdges = 0 and estimatedMinCurvatureRadius = 0 is not flagged, even *)
(* when tJunctionCount > 0.                                                *)
C13_RadiusSentinel ==
  ( /\ Validated
    /\ modelData.edgeAnalysis.sharpEdges = 0
    /\ modelData.edgeAnalysis.estimatedMinCurvatureRadius = 0 )
    => (results[4].passed /\ results[4].severity = "info")

(* the depth estimate of the channel analysis: analyzeChannels emits one   *)
(* depth for all of its diameter estimates                                 *)
EstimatedChannelDepth(data) ==
  IF Len(data.channelAnalysis.estimatedDepths) = 0
    THEN 0 ELSE data.channelAnalysis.estimatedDepths[1]

(* C14: "Canali Aperti" enforces the guideline bands on every estimated    *)
(* channel diameter, not only the first: when some diameter lies in 1-3 mm *)
(* with the estimated depth above 10 mm, or in 3-5 mm with the estimated   *)
(* depth above 30 mm, the check fails with severity warning.               *)
C14_ChannelBands ==
  Validated =>
    LET ch    == modelData.channelAnalysis
        depth == EstimatedChannelDepth(modelData)
    IN  (\E i \in 1..Len(ch.estimatedDiameters) :
            LET d == ch.estimatedDiameters[i]
            IN  \/ (d >= 1000 /\ d <= 3000 /\ depth > 10000)
                \/ (d > 3000 /\ d <= 5000 /\ depth > 30000))
          => (~results[6].passed /\ results[6].severity = "warning")

(* C15: analyzeCavities emits a hole-depth estimate exactly when a cavity  *)
(* is detected: estimatedHoleDepths is non-empty iff potentialCavities > 0,*)
(* and when non-empty it holds the single value 0.3 x the smallest size of *)
(* the bounding box.                                                       *)
C15_HoleDepthIffCavity ==
  pc = "analyzed" =>
    LET c == modelData.cavityAnalysis
    IN  /\ (Len(c.estimatedHoleDepths) > 0) <=> (c.potentialCavities > 0)
        /\ Len(c.estimatedHoleDepths) > 0
             => c.estimatedHoleDepths = << HoleDepth(modelData.boundingBox) >>

(* the sum over all triangles of the absolute value of one component of    *)
(* the unit normal                                                         *)
AbsNormalSum(buffer, axis) ==
  SumSeq([ k \in 1..TriangleCount(buffer) |-> Abs(AreaNormal(buffer, k - 1)[axis]) ])

(* C16: normalDistribution is, per axis, the mean over all triangles of    *)
(* the absolute value of the unit-normal component: the sum of |n_axis|    *)
(* divided by the triangle count.  For the axis-aligned unit cube each     *)
(* axis value is 1/3.                                                      *)
C16_MeanAbsNormal ==
  (pc = "analyzed" /\ TriangleCount(positions) > 0) =>
    LET nd == modelData.normalDistribution
    IN  /\ nd.x = Quot(AbsNormalSum(positions, 1), TriangleCount(positions))
        /\ nd.y = Quot(AbsNormalSum(positions, 2), TriangleCount(positions))
        /\ nd.z = Quot(AbsNormalSum(positions, 3), TriangleCount(positions))
        /\ positions \in UnitCubes =>
             /\ 3 * nd.x.num = NormScale * nd.x.den
             /\ 3 * nd.y.num = NormScale * nd.y.den
             /\ 3 * nd.z.num = NormScale * nd.z.den

(* two quotients with the same value *)
SameQuot(a, b) == a.num * b.den = b.num * a.den /\ (a.den = 0 <=> b.den = 0)

(* C17: a zero-area triangle is tolerated and contributes neutrally: with  *)
(* one appended to a mesh the analysis does not raise, the face normal of  *)
(* that triangle is the zero vector, and volume, surface area, the normal  *)
(* distribution and the triangle density are those of the mesh without it. *)
C17_DegenerateNeutral ==
  \A base \in Bases :
    positions = base \o Degenerate(base) =>
      /\ pc # "failed"
      /\ pc = "analyzed" =>
           LET nd == modelData.normalDistribution
               of == NormalDistribution(base)
           IN  /\ calculateFaceNormals(positions)[TriangleCount(positions)] = <<0, 0, 0>>
               /\ modelData.volume = Volume(base)
               /\ modelData.surfaceArea = SurfaceArea(base)
               /\ SameQuot(nd.x, of.x) /\ SameQuot(nd.y, of.y) /\ SameQuot(nd.z, of.z)
               /\ SameQuot(modelData.geometricComplexity.triangleDensity,
                           Quot(TriangleCount(base) * UmPerUnit * UmPerUnit,
                                SurfaceArea(base)))

(* the part of C17 the code does satisfy *)
C17_Tolerated ==
  \A base \in Bases :
    positions = base \o Degenerate(base) =>
      /\ pc # "failed"
      /\ pc = "analyzed" =>
           /\ calculateFaceNormals(positions)[TriangleCount(positions)] = <<0, 0, 0>>
           /\ modelData.volume = Volume(base)
           /\ modelData.surfaceArea = SurfaceArea(base)

(* C18: an undefined estimator never surfaces as NaN or Infinity: for a    *)
(* mesh with triangle count 0 or surface area 0 the triangle density, the  *)
(* curvature variance, the average wall thickness and the normal           *)
(* distribution of ModelData are finite, and for a mesh whose smallest     *)
(* bounding-box dimension is 0 the aspect ratio of the "Aspect Ratio"      *)
(* check is finite.                                                        *)
C18_NoNaN ==
  /\ (pc = "analyzed" /\ (modelData.triangleCount = 0 \/ modelData.surfaceArea = 0)) =>
       /\ IsFinite(modelData.geometricComplexity.triangleDensity)
       /\ IsFinite(modelData.geometricComplexity.surfaceCurvatureVariance)
       /\ modelData.wallThickness.avgThickness >= 0
       /\ IsFinite(modelData.normalDistribution.x)
       /\ IsFinite(modelData.normalDistribution.y)
       /\ IsFinite(modelData.normalDistribution.z)
  /\ (pc \in {"analyzed", "validated"} /\ Min3(modelData.dimensions.length, modelData.dimensions.width,
                                              modelData.dimensions.height) = 0) =>
       IsFinite(AspectRatio(modelData))

(* the draws of the sampling loop that push a sample *)
ValidDraws ==
  { s \in 1..Len(draws) :
      SampleOf(positions, calculateFaceNormals(positions), draws[s]) # << >> }

(* C19: analyzeWallThickness draws min(100, floor(triangleCount / 10))     *)
(* source triangles and each draw contributes at most one sample: when a   *)
(* draw yields a valid sample, samples has one entry per such draw and at  *)
(* most min(100, floor(triangleCount / 10)) entries; when none does, which *)
(* includes every mesh with fewer than 10 triangles, samples is exactly    *)
(* the single synthetic value 0.1 x the smallest bounding-box size.        *)
C19_SampleBound ==
  pc = "analyzed" =>
    LET samples   == modelData.wallThickness.samples
        limit     == Min2(100, modelData.triangleCount \div 10)
        d         == modelData.dimensions
        synthetic == Min3(d.length, d.width, d.height) \div 10
    IN  /\ Len(draws) = limit
        /\ ValidDraws # {} =>
             (Len(samples) = Cardinality(ValidDraws) /\ Len(samples) <= limit)
        /\ ValidDraws = {} => samples = << synthetic >>
        /\ modelData.triangleCount < 10 => samples = << synthetic >>

(* C19 reached with two draws of which one finds an opposite face *)
C19_Witness ==
  /\ pc = "analyzed"
  /\ Len(draws) = 2
  /\ Cardinality(ValidDraws) = 1
  /\ Len(modelData.wallThickness.samples) = 1

(* C19 reached with two draws that both find an opposite face *)
C19_WitnessFull ==
  /\ pc = "analyzed"
  /\ Len(draws) = 2
  /\ Len(modelData.wallThickness.samples) = 2

(* the triangles of buffer enumerated in the order order[1], order[2], ... *)
Permuted(buffer, order) ==
  Flatten([ k \in 1..Len(order) |->
              SubSeq(buffer, 3 * order[k] + 1, 3 * order[k] + 3) ])

(* every order of n triangles *)
AllOrders(n) ==
  { p \in [1..n -> 0..(n - 1)] : \A i, j \in 1..n : p[i] = p[j] => i = j }

(* the reverse order, the order starting at the second triangle, and the   *)
(* order with the first two triangles exchanged                            *)
SomeOrders(n) ==
  { [ k \in 1..n |-> n - k ],
    [ k \in 1..n |-> k % n ],
    [ k \in 1..n |-> IF k = 1 THEN 1 ELSE IF k = 2 THEN 0 ELSE k - 1 ] }

Orders(n) ==
  IF n < 2 THEN { [ k \in 1..n |-> k - 1 ] }
  ELSE IF n <= MaxPermuted THEN AllOrders(n) ELSE SomeOrders(n)

(* the keys of an edge map, each with the number of its incident faces *)
EdgeFaceCounts(edgeMap) ==
  { << edgeMap[k].key, Len(edgeMap[k].faces) >> : k \in 1..Len(edgeMap) }

(* C20: the edges of buildEdgeMap do not depend on the order in which the  *)
(* triangles are enumerated: for a permutation of the triangles the set of *)
(* edge keys and the number of incident faces of each key are the same,    *)
(* hence totalEdges, the boundary-edge count and the T-junction count are  *)
(* the same; the triangle indices inside an entry follow the input order.  *)
C20_EdgeSetOrderIndependent ==
  pc = "analyzed" =>
    LET edgeMap == buildEdgeMap(positions)
    IN  \A order \in Orders(TriangleCount(positions)) :
          LET permuted == buildEdgeMap(Permuted(positions, order))
          IN  /\ EdgeFaceCounts(permuted) = EdgeFaceCounts(edgeMap)
              /\ Len(permuted) = modelData.edgeAnalysis.totalEdges
              /\ Len(permuted) = modelData.edgeCount
              /\ EdgesWithFaces(permuted, 1) = EdgesWithFaces(edgeMap, 1)
              /\ Cardinality({ k \in 1..Len(permuted) : Len(permuted[k].faces) >= 3 })
                   = modelData.edgeAnalysis.tJunctionCount
              /\ \A k \in 1..Len(permuted) :
                   \A a, b \in 1..Len(permuted[k].faces) :
                      a < b => permuted[k].faces[a] <= permuted[k].faces[b]

(* C20 reached on a mesh with boundary edges and a T-junction whose        *)
(* triangles in reverse order give another buffer and another entry order  *)
C20_Witness ==
  /\ pc = "analyzed"
  /\ TriangleCount(positions) > MaxPermuted
  /\ modelData.edgeAnalysis.tJunctionCount > 0
  /\ EdgesWithFaces(buildEdgeMap(positions), 1) > 0
  /\ LET n        == TriangleCount(positions)
         permuted == Permuted(positions, [ k \in 1..n |-> n - k ])
     IN  /\ permuted # positions
         /\ buildEdgeMap(permuted)[1].key # buildEdgeMap(positions)[1].key

(* the bins of the analysed mesh with positive area whose representative   *)
(* normal has y < -0.9 or z < -0.9                                         *)
DownwardBins ==
  LET bins == NormalBins(positions, calculateFaceNormals(positions))
  IN  { [area |-> bins[k].area, normal |-> bins[k].normal] :
          k \in { j \in 1..Len(bins) :
                    /\ bins[j].area > 0
                    /\ (10 * bins[j].normal[2] < -9 * NormScale
                          \/ 10 * bins[j].normal[3] < -9 * NormScale) } }

(* C21: hasFlatBase is true iff some normal bin has positive accumulated   *)
(* area and a representative normal with y < -0.9 or z < -0.9; then        *)
(* flatBaseArea is the largest area over such bins and flatBaseNormal the  *)
(* representative normal of a bin of that area; otherwise hasFlatBase is   *)
(* false, flatBaseArea is 0 and flatBaseNormal is null.  "Base di          *)
(* Appoggio" passes exactly when hasFlatBase.                              *)
C21_FlatBase ==
  /\ pc = "analyzed" =>
       LET g == modelData.geometricComplexity
       IN  /\ g.hasFlatBase <=> (DownwardBins # {})
           /\ g.hasFlatBase =>
                /\ \A b \in DownwardBins : b.area <= g.flatBaseArea
                /\ \E b \in DownwardBins :
                      b.area = g.flatBaseArea /\ b.normal = g.flatBaseNormal
           /\ ~g.hasFlatBase => (g.flatBaseArea = 0 /\ g.flatBaseNormal = Null)
  /\ (Validated /\ Len(positions) > 0) =>
       /\ results[9].passed = modelData.geometricComplexity.hasFlatBase
       /\ results[9].severity =
            (IF modelData.geometricComplexity.hasFlatBase THEN "info" ELSE "warning")

(* C21 reached on a mesh with two downward bins of different area, the     *)
(* larger one facing -y                                                    *)
C21_Witness ==
  /\ pc = "analyzed"
  /\ modelData.geometricComplexity.hasFlatBase
  /\ modelData.geometricComplexity.flatBaseNormal = <<0, -NormScale, 0>>
  /\ \E b \in DownwardBins : b.area < modelData.geometricComplexity.flatBaseArea

(* C21 reached on a mesh without a downward bin *)
C21_WitnessNone ==
  /\ pc = "analyzed"
  /\ Len(positions) > 0
  /\ ~modelData.geometricComplexity.hasFlatBase

(* C22: with b the number of edge-map entries that have exactly one face   *)
(* and c the number of triangles whose normal has a dot product above 0.7  *)
(* with the direction from the centroid to the centre of the bounding box, *)
(* analyzeCavities reports boundaryLoops = floor(b / 3), blindHoleCount =  *)
(* floor(b / 6), throughHoleCount = floor(b / 12) and potentialCavities =  *)
(* floor(c / 10); hence throughHoleCount <= blindHoleCount <=              *)
(* boundaryLoops.                                                          *)
C22_CavityCounts ==
  pc = "analyzed" =>
    LET edgeMap == buildEdgeMap(positions)
        normals == calculateFaceNormals(positions)
        b == Cardinality({ k \in 1..Len(edgeMap) : Len(edgeMap[k].faces) = 1 })
        c == Cardinality({ i \in 0..(TriangleCount(positions) - 1) :
                 10 * DotV(normals[i + 1],
                           ToCenter(positions, modelData.boundingBox, i)) > 7 * DotScale })
        a == modelData.cavityAnalysis
    IN  /\ a.boundaryLoops = b \div 3
        /\ a.blindHoleCount = b \div 6
        /\ a.throughHoleCount = b \div 12
        /\ a.potentialCavities = c \div 10
        /\ a.throughHoleCount <= a.blindHoleCount
        /\ a.blindHoleCount <= a.boundaryLoops

(* C22 reached with twelve boundary edges: 4 loops, 2 blind, 1 through *)
C22_Witness ==
  /\ pc = "analyzed"
  /\ modelData.cavityAnalysis.throughHoleCount = 1
  /\ modelData.cavityAnalysis.blindHoleCount = 2
  /\ modelData.cavityAnalysis.boundaryLoops = 4

(* C22 reached with ten or more inward-facing triangles *)
C22_WitnessCavity ==
  /\ pc = "analyzed"
  /\ modelData.cavityAnalysis.potentialCavities = 1

(* C23: the genus estimate is max(0, floor(b / 6) - 1) for the same count  *)
(* b of boundary edges the cavity analyzer uses, each analyzer building    *)
(* its own edge map: genus = max(0, blindHoleCount - 1), edgeCount =       *)
(* edgeAnalysis.totalEdges, and componentCount = 1.                        *)
C23_GenusFromBoundary ==
  pc = "analyzed" =>
    LET edgeMap == buildEdgeMap(positions)
        b == Cardinality({ k \in 1..Len(edgeMap) : Len(edgeMap[k].faces) = 1 })
        g == modelData.geometricComplexity
    IN  /\ g.genus = (IF b \div 6 - 1 > 0 THEN b \div 6 - 1 ELSE 0)
        /\ g.genus = (IF modelData.cavityAnalysis.blindHoleCount > 1
                        THEN modelData.cavityAnalysis.blindHoleCount - 1 ELSE 0)
        /\ modelData.edgeCount = modelData.edgeAnalysis.totalEdges
        /\ modelData.edgeCount = Len(edgeMap)
        /\ g.componentCount = 1

(* C23 reached with twelve boundary edges: two blind holes, genus 1 *)
C23_Witness ==
  /\ pc = "analyzed"
  /\ modelData.cavityAnalysis.blindHoleCount = 2
  /\ modelData.geometricComplexity.genus = 1
  /\ modelData.edgeCount = 12

(* the tubular samples of the analysed mesh: every 10th triangle whose     *)
(* normal has a horizontal component above 0.8 and |z| below 0.3           *)
TubularSamples ==
  LET normals == calculateFaceNormals(positions)
  IN  { i \in 0..(TriangleCount(positions) - 1) :
          /\ i % 10 = 0
          /\ 10 * ISqrt(normals[i + 1][1] * normals[i + 1][1]
                          + normals[i + 1][2] * normals[i + 1][2]) > 8 * NormScale
          /\ 10 * Abs(normals[i + 1][3]) < 3 * NormScale }

(* C24: the straight / curved classification always resolves to straight:  *)
(* curvedChannels = 0 for every input, and straightChannels is 1 when the  *)
(* tubular-sample count exceeds 10 and 0 otherwise.                        *)
C24_NeverCurved ==
  pc \in {"analyzed", "validated"} =>
    /\ modelData.channelAnalysis.curvedChannels = 0
    /\ modelData.channelAnalysis.straightChannels =
         (IF Cardinality(TubularSamples) > 10 THEN 1 ELSE 0)

(* C24 reached with 11 tubular samples: one straight channel *)
C24_Witness ==
  /\ pc = "analyzed"
  /\ Cardinality(TubularSamples) = 11
  /\ modelData.channelAnalysis.straightChannels = 1
  /\ modelData.channelAnalysis.curvedChannels = 0

(* C28: the fields of ChannelAnalysis are consistent with one another:     *)
(* straightChannels + curvedChannels <= potentialChannels, and             *)
(* estimatedDiameters and estimatedDepths are non-empty only when          *)
(* potentialChannels > 0, so that "Canali Aperti" examines every diameter  *)
(* estimate that is emitted.                                               *)
C28_ChannelFieldsConsistent ==
  pc \in {"analyzed", "validated"} =>
    LET ch == modelData.channelAnalysis
    IN  /\ ch.straightChannels + ch.curvedChannels <= ch.potentialChannels
        /\ Len(ch.estimatedDiameters) > 0 => ch.potentialChannels > 0
        /\ Len(ch.estimatedDepths) > 0 => ch.potentialChannels > 0

(* C25: passed and severity agree in every result of validateModel:        *)
(* severity info implies passed, severity error implies not passed, not    *)
(* passed implies severity warning or error; a result that passed with a   *)
(* severity other than info is an "Aspect Ratio" result with               *)
(* 5 < ratio <= 10.                                                        *)
C25_SeverityConsistent ==
  Validated =>
    \A i \in 1..Len(results) :
      LET r      == results[i]
          d      == modelData.dimensions
          larger == Max3(d.length, d.width, d.height)
          lesser == Min3(d.length, d.width, d.height)
      IN  /\ r.severity \in {"info", "warning", "error"}
          /\ r.severity = "info" => r.passed
          /\ r.severity = "error" => ~r.passed
          /\ ~r.passed => r.severity \in {"warning", "error"}
          /\ (r.passed /\ r.severity # "info") =>
               /\ r.name = "Aspect Ratio"
               /\ lesser > 0
               /\ larger > 5 * lesser
               /\ larger <= 10 * lesser

(* C25 reached with an aspect ratio of 10: passed with severity warning,   *)
(* beside a failed check of severity error and one of severity warning     *)
C25_Witness ==
  /\ Validated
  /\ results[3].passed /\ results[3].severity = "warning"
  /\ \E i \in 1..Len(results) : ~results[i].passed /\ results[i].severity = "error"
  /\ \E i \in 1..Len(results) : ~results[i].passed /\ results[i].severity = "warning"

(* C26: the edge map of a mesh of T triangles conserves incidences: every  *)
(* entry has at least one face, the face counts of all entries add up to   *)
(* 3 T, no triangle index occurs twice in the faces of one entry, and the  *)
(* boundary (1 face), manifold (2 faces) and non-manifold (3 or more)      *)
(* entries together are the totalEdges <= 3 T entries.                     *)
C26_IncidenceConserved ==
  pc = "analyzed" =>
    LET edgeMap == buildEdgeMap(positions)
        count   == TriangleCount(positions)
    IN  /\ \A k \in 1..Len(edgeMap) : Len(edgeMap[k].faces) >= 1
        /\ SumSeq([ k \in 1..Len(edgeMap) |-> Len(edgeMap[k].faces) ]) = 3 * count
        /\ EdgesWithFaces(edgeMap, 1) + EdgesWithFaces(edgeMap, 2)
             + modelData.edgeAnalysis.tJunctionCount = modelData.edgeAnalysis.totalEdges
        /\ modelData.edgeAnalysis.totalEdges <= 3 * count
        /\ \A k \in 1..Len(edgeMap) :
             \A a, b \in 1..Len(edgeMap[k].faces) :
               a # b => edgeMap[k].faces[a] # edgeMap[k].faces[b]

(* the part of C26 that does not depend on the triangles being proper *)
C26_CountsConserved ==
  pc = "analyzed" =>
    LET edgeMap == buildEdgeMap(positions)
        count   == TriangleCount(positions)
    IN  /\ \A k \in 1..Len(edgeMap) : Len(edgeMap[k].faces) >= 1
        /\ SumSeq([ k \in 1..Len(edgeMap) |-> Len(edgeMap[k].faces) ]) = 3 * count
        /\ EdgesWithFaces(edgeMap, 1) + EdgesWithFaces(edgeMap, 2)
             + modelData.edgeAnalysis.tJunctionCount = modelData.edgeAnalysis.totalEdges
        /\ modelData.edgeAnalysis.totalEdges <= 3 * count

SourceOfData ==
  { f \in 1..Len(UploadFiles) :
      /\ UploadFiles[f].parses
      /\ modelData = analyzeSTLGeometry(UploadFiles[f].positions, draws) }

(* C29: under any sequence of processFile calls and any interleaving of    *)
(* the FileReader callbacks, whenever modelData is not null the file name  *)
(* shown is the name of the file modelData was computed from, and          *)
(* validationResults is validateModel(modelData).                          *)
C29_NameMatchesData ==
  modelData # NoData =>
    /\ results = validateModel(modelData)
    /\ \E f \in SourceOfData : fileName = UploadFiles[f].name

(* the part of C29 about validationResults *)
C29_ResultsMatchData ==
  /\ modelData # NoData => results = validateModel(modelData)
  /\ modelData = NoData => results = << >>

(* C30: isLoading is true exactly while a started file read has not        *)
(* called back: it is not set by a rejected file, it is false once every   *)
(* read has completed, and with two overlapping reads it does not become   *)
(* false until both have completed.                                        *)
C30_LoadingWhileReading ==
  isLoading <=> (Len(reads) > 0)

(* the part of C30 about rejected files and the end: a rejected file does  *)
(* not set isLoading, and with no read left isLoading is false             *)
C30_IdleWhenDone ==
  Len(reads) = 0 => ~isLoading

=============================================================================
